---- MODULE Spec2Model ----
(***************************************************************************)
(* Threadshift: the character store, the zone swap engine (Swap            *)
(* Coordinator), the history tracker (History Stack) and the               *)
(* multi-character handler (Character State Cache), as state machines.     *)
(*                                                                         *)
(* JavaScript indices are kept as they are in the source (0-based,         *)
(* currentIndex = -1 for "nothing applied"); the JS element k of an array  *)
(* is element k+1 of the TLA+ sequence.                                    *)
(***************************************************************************)
EXTENDS Integers, Sequences, FiniteSets, TLC

(***************************************************************************)
(* Bounds of the model.                                                    *)
(***************************************************************************)
\* largest value of performance.maxHistoryEntries the configuration takes
MaxHistoryConfig == 3
\* clock values (Date.now()) at which history entries are created
MaxClock == 4
\* performSwap calls in one run
MaxSwapCalls == 1
\* largest value of multiCharacter.maxCharacters the configuration takes
MaxCacheConfig == 2
\* the memory budget the configuration sets, in the unit of calculateStateSize
MaxMemoryConfig == 4
\* memoryUsageBytes up to which characters are still loaded or created
MaxMemoryUsage == 4
\* clock values (Date.now()) at which the cache is used
MaxNow == 2
\* performSwap calls made while calls may be suspended
MaxFlightCalls == 2
\* flushes of evicted entries that are in flight at once
MaxFlushes == 2
\* writes queued in the storage manager in one run
MaxQueued == 4

VARIABLES
    \* ---- ThreadshiftStorageManager: extensionSettings['threadshift_characters']
    characters,
    \* ---- ThreadshiftZoneSwapEngine
    initialized,      \* this.initialized
    enabled,          \* this.enabled
    settings,         \* this.settings
    swapRecords,      \* the swapData objects, by the counter part of their id
    activeSwaps,      \* the keys of this.activeSwaps
    swapHistory,      \* this.swapHistory, as the ids of its swapData objects
    swapCounter,      \* this.swapCounter
    stats,            \* this.stats
    eLast,            \* the last engine call and what it returned
    preSwap,          \* the store before the last successful performSwap
    flights,          \* the performSwap calls that are suspended at an await
    \* ---- ThreadshiftHistoryTracker
    history,          \* this.history
    currentIndex,     \* this.currentIndex
    maxHistorySize,   \* this.maxHistorySize
    clock,            \* Date.now(), as far as entry ids and timestamps read it
    hLast,            \* the last History Stack call and what it returned
    undoing,          \* the undo calls that are suspended at an await
    \* ---- ThreadshiftMultiCharacterHandler
    activeCharacterId,    \* this.activeCharacterId
    characterCache,       \* this.characterCache: character id -> state
    lastAccessTimes,      \* this.lastAccessTimes, in the insertion order of the Map
    memoryUsageBytes,     \* this.memoryUsageBytes
    maxCachedCharacters,  \* this.maxCachedCharacters
    maxMemoryBytes,       \* this.maxMemoryMB * 1024 * 1024
    now,                  \* Date.now(), as far as the cache reads it
    cLast,                \* the last cache call, if it removed cache entries or found no character
    isProcessingSwitches, \* this.isProcessingSwitches
    switching,            \* the switchCharacter calls that are suspended at an await
    flushing,             \* the saveCharacterState calls started by a pass and not settled yet
    \* ---- ThreadshiftStorageManager
    persisted,            \* the characters record as window.saveSettings last saved it
    fallbackStorage,      \* this.fallbackStorage, as far as it holds the characters record
    autoSave,             \* performance.autoSave, as saveToStorage reads it
    sLast,                \* the last call that wrote to the store and what it returned
    writeQueue,           \* this.writeQueue
    isProcessingQueue,    \* this.isProcessingQueue
    performing,           \* the performWrite calls that are suspended at window.saveSettings()
    stopping,             \* where a shutdown() of the storage manager is suspended
    qLast,                \* the writes queued so far, and what became of them
    storedHistory         \* extensionSettings['threadshift_history']

storeVars == <<characters>>
queueVars == <<writeQueue, isProcessingQueue, performing, stopping, qLast>>
storageVars == <<persisted, fallbackStorage, autoSave, sLast, writeQueue, isProcessingQueue, performing, stopping, qLast,
                 storedHistory>>
engineVars == <<initialized, enabled, settings, swapRecords, activeSwaps, swapHistory, swapCounter, stats, eLast, preSwap,
               flights>>
trackerVars == <<history, currentIndex, maxHistorySize, clock, hLast, undoing>>
cacheVars == <<activeCharacterId, characterCache, lastAccessTimes, memoryUsageBytes,
               maxCachedCharacters, maxMemoryBytes, now, cLast, isProcessingSwitches, switching,
               flushing>>
vars == <<characters, initialized, enabled, settings, swapRecords, activeSwaps, swapHistory, swapCounter, stats,
          eLast, preSwap, history, currentIndex, maxHistorySize, clock, hLast, undoing,
          activeCharacterId, characterCache, lastAccessTimes, memoryUsageBytes,
          maxCachedCharacters, maxMemoryBytes, now, cLast, flights, isProcessingSwitches, switching, flushing,
          persisted, fallbackStorage, autoSave, sLast,
          writeQueue, isProcessingQueue, performing, stopping, qLast, storedHistory>>

\* the swap id that stands for "no swap": generateSwapId counts from 1
NoSwap == 0

Max(a, b) == IF a >= b THEN a ELSE b
Min(a, b) == IF a <= b THEN a ELSE b

(***************************************************************************)
(* ThreadshiftStorageManager: the characters record                        *)
(***************************************************************************)
Chars == {"c1", "c2", "c3"}
Zones == {"chest", "waist"}
\* A zone that is missing from a body map, or holds undefined, reads as
\* undefined; "" is a zone that is present and falsy.
Undefined == "undefined"
EmptyStr == ""
ZoneValues == {Undefined, EmptyStr, "flat", "large", "slim", "wide"}
Truthy(v) == v \notin {Undefined, EmptyStr}
\* loadBodyMap returns null for a character the record does not hold
NoMap == [z \in Zones |-> "null"]

\* loadBodyMap(id)
loadBodyMap(store, id) == store[id]
\* saveBodyMap(id, map): read the record, set characters[id], write it back
saveBodyMap(store, id, map) == [store EXCEPT ![id] = map]
\* hasBodyMap / deleteBodyMap of the storage manager
hasBodyMap(store, id) == store[id] # NoMap
deleteBodyMap(store, id) == [store EXCEPT ![id] = NoMap]
\* the value a body map, or null, holds for a zone
ZoneOf(store, id, zone) == IF store[id] = NoMap THEN Undefined ELSE store[id][zone]

\* ---- the values saveToStorage and loadFromStorage pass: an array, with its
\* elements; an object, with the values it holds under the index keys "0",
\* "1", ... and the checksum it holds under _checksum, if any; undefined for
\* a key that window.extensionSettings does not hold
NoChecksum == [present |-> FALSE, text |-> <<>>]
JsArray(items) == [kind |-> "array", items |-> items, checksum |-> NoChecksum]
JsObject(items, checksum) == [kind |-> "object", items |-> items, checksum |-> checksum]
JsUndefined == [kind |-> "undefined", items |-> <<>>, checksum |-> NoChecksum]

\* generateChecksum: the metadata keys are taken out and the rest is hashed as
\* JSON text; the rest of an array is an object with its index keys, so the
\* text is that of the values under the index keys
generateChecksum(data) == [present |-> TRUE, text |-> data.items]

\* performWrite: storageData = { ...data, _version, _lastSaved, _checksum };
\* the spread of an array is an object with the index keys of the array
storageData(data) == JsObject(data.items, generateChecksum(data))

\* loadFromStorage(key, defaultValue), for what window.extensionSettings holds
\* under the key: the value without its metadata keys, as a new object
loadFromStorage(stored, defaultValue) ==
    IF stored.kind = "undefined" THEN defaultValue
    ELSE IF stored.checksum.present /\ stored.checksum # generateChecksum(stored) THEN defaultValue
    ELSE JsObject(stored.items, NoChecksum)

(***************************************************************************)
(* ThreadshiftZoneSwapEngine                                               *)
(***************************************************************************)
\* the elements of a zone list
Range(q) == { q[k] : k \in 1..Len(q) }

\* cloneBodyMapZones: a copy of the zones of the list that the map holds a
\* truthy value for; a zone that is missing or falsy gets no key in the copy
cloneBodyMapZones(bodyMap, zones) ==
    [z \in { y \in Range(zones) : bodyMap # NoMap /\ Truthy(bodyMap[y]) } |-> bodyMap[z]]

\* { ...bodyMap, ...snapshot }
Spread(bodyMap, snapshot) ==
    [z \in Zones |-> IF z \in DOMAIN snapshot THEN snapshot[z]
                     ELSE IF bodyMap = NoMap THEN Undefined ELSE bodyMap[z]]

applyZoneSwapWholeTarget(store, sourceCharId, targetCharId, zone) ==
    LET sourceBodyMap == loadBodyMap(store, sourceCharId)
        targetBodyMap == loadBodyMap(store, targetCharId)
    IN IF sourceBodyMap = NoMap \/ targetBodyMap = NoMap
       THEN [store |-> store, success |-> FALSE]
       ELSE LET updatedSourceMap == [sourceBodyMap EXCEPT ![zone] = targetBodyMap[zone]]
                saved == saveBodyMap(store, sourceCharId, updatedSourceMap)
            IN [store |-> saveBodyMap(saved, targetCharId, sourceBodyMap), success |-> TRUE]

\* applyZoneSwap: the store afterwards and the success flag of the zone result
applyZoneSwap(store, sourceCharId, targetCharId, zone) ==
    LET sourceBodyMap == loadBodyMap(store, sourceCharId)
        targetBodyMap == loadBodyMap(store, targetCharId)
    IN IF sourceBodyMap = NoMap \/ targetBodyMap = NoMap
       THEN \* throws 'Missing body map for character', caught in place
            [store |-> store, success |-> FALSE]
       ELSE LET updatedSourceMap == [sourceBodyMap EXCEPT ![zone] = targetBodyMap[zone]]
                updatedTargetMap == [targetBodyMap EXCEPT ![zone] = sourceBodyMap[zone]]
                saved == saveBodyMap(store, sourceCharId, updatedSourceMap)
            IN [store |-> saveBodyMap(saved, targetCharId, updatedTargetMap), success |-> TRUE]

\* the loop of executeSwap over the zones, in the order given: the store
\* afterwards and the zone results
RECURSIVE SwapZones(_, _, _, _)
SwapZones(store, sourceCharId, targetCharId, zones) ==
    IF zones = <<>> THEN [store |-> store, results |-> <<>>]
    ELSE LET one == applyZoneSwap(store, sourceCharId, targetCharId, Head(zones))
             rest == SwapZones(one.store, sourceCharId, targetCharId, Tail(zones))
         IN [store |-> rest.store,
             results |-> <<[zone |-> Head(zones), success |-> one.success]>> \o rest.results]

\* addToHistory: unshift, then keep the first historyLimit entries
addToHistory(h, swapId, limit) ==
    LET grown == <<swapId>> \o h
    IN IF Len(grown) > limit THEN SubSeq(grown, 1, limit) ELSE grown

\* isReady()
isReady == initialized /\ enabled

\* what eLast holds: the call, how it ended ("throw", "null" for the fallback
\* of safeOperation, "success" or "failure" for a result object with that
\* success flag), the swap id of the result object, the characters and
\* zones the call was about, and the results list of the result object
EResult(op, outcome, swapId, sourceCharId, targetCharId, zones) ==
    [op |-> op, outcome |-> outcome, swapId |-> swapId,
     sourceCharId |-> sourceCharId, targetCharId |-> targetCharId, zones |-> zones,
     results |-> <<>>]
NoStore == [taken |-> FALSE, store |-> [c \in Chars |-> NoMap]]

argumentsNeverRejected(sourceCharId, targetCharId, zones) == FALSE

\* performSwap: whether the checks of the arguments and of the garment's zones
\* throw (the character ids and the garment id are non-empty strings here)
argumentsRejected(sourceCharId, targetCharId, zones) ==
    \/ sourceCharId = targetCharId
    \/ zones = <<>>

validationNeverAborts(s, valid) == FALSE

\* performSwap: whether the validation step throws, for the answer valid of
\* validateSwap
validationAborts(s, valid) ==
    /\ s.autoValidation /\ s.validateTransformations
    /\ ~valid
    /\ ~s.allowPartialTransformations

\* performSwap(sourceCharId, targetCharId, garmentId, options): zones is the
\* list the garment resolves to (empty for a garment without zones), valid is
\* what the validator answers, reciprocal how the reciprocal handler ends
PerformSwap(sourceCharId, targetCharId, zones, valid, reciprocal) ==
    /\ stats.totalSwaps < MaxSwapCalls
    /\ IF ~isReady
       THEN /\ eLast' = EResult("performSwap", "throw", NoSwap, "", "", <<>>)
            /\ preSwap' = NoStore
            /\ UNCHANGED <<characters, swapRecords, activeSwaps, swapHistory, swapCounter, stats>>
       ELSE LET counted == [stats EXCEPT !.totalSwaps = @ + 1]
                validated == settings.autoValidation /\ settings.validateTransformations
                rejected == validationAborts(settings, valid)
                checked == IF validated /\ ~valid
                           THEN [counted EXCEPT !.validationErrors = @ + 1]
                           ELSE counted
            IN IF argumentsRejected(sourceCharId, targetCharId, zones)
               THEN \* thrown inside safeOperation: logged, the fallback returned
                    /\ stats' = counted
                    /\ eLast' = EResult("performSwap", "null", NoSwap, sourceCharId, targetCharId, zones)
                    /\ preSwap' = NoStore
                    /\ UNCHANGED <<characters, swapRecords, activeSwaps, swapHistory, swapCounter>>
               ELSE IF rejected
               THEN /\ stats' = checked
                    /\ eLast' = EResult("performSwap", "null", NoSwap, sourceCharId, targetCharId, zones)
                    /\ preSwap' = NoStore
                    /\ UNCHANGED <<characters, swapRecords, activeSwaps, swapHistory, swapCounter>>
               ELSE \* executeSwap
                    LET swapId == swapCounter + 1
                        swapData == [id |-> swapId,
                                     sourceCharId |-> sourceCharId,
                                     targetCharId |-> targetCharId,
                                     zones |-> zones,
                                     status |-> "active",
                                     originalStates |->
                                        [source |-> cloneBodyMapZones(loadBodyMap(characters, sourceCharId), zones),
                                         target |-> cloneBodyMapZones(loadBodyMap(characters, targetCharId), zones)]]
                        swapped == SwapZones(characters, sourceCharId, targetCharId, zones)
                    IN /\ swapCounter' = swapId
                       /\ characters' = swapped.store
                       /\ IF reciprocal = "throw"
                          THEN \* the catch of executeSwap
                               /\ stats' = [checked EXCEPT !.failedSwaps = @ + 1, !.successfulSwaps = @ + 1]
                               /\ eLast' = EResult("performSwap", "failure", swapId, sourceCharId, targetCharId, zones)
                               /\ preSwap' = NoStore
                               /\ UNCHANGED <<swapRecords, activeSwaps, swapHistory>>
                          ELSE /\ swapRecords' = (swapId :> swapData) @@ swapRecords
                               /\ activeSwaps' = activeSwaps \cup {swapId}
                               /\ swapHistory' = addToHistory(swapHistory, swapId, settings.historyLimit)
                               /\ stats' = [checked EXCEPT !.successfulSwaps = @ + 1]
                               /\ eLast' = [EResult("performSwap", "success", swapId, sourceCharId, targetCharId, zones)
                                               EXCEPT !.results = swapped.results]
                               /\ preSwap' = [taken |-> TRUE, store |-> characters]
    /\ UNCHANGED <<initialized, enabled, settings, flights>>

markReversedAndReleased(records, swapId) ==
    [records EXCEPT ![swapId].status = "reversed",
                    ![swapId].originalStates = [source |-> <<>>, target |-> <<>>]]

\* reverseSwap: swapData.status = 'reversed' (reversedAt is not followed)
markReversed(records, swapId) ==
    [records EXCEPT ![swapId].status = "reversed"]

reversibleOnceRecorded(swapId) == swapId \in DOMAIN swapRecords

\* reverseSwap: the swap is in this.activeSwaps, with status 'active'
reversible(swapId) ==
    /\ swapId \in activeSwaps
    /\ swapRecords[swapId].status = "active"

\* reverseSwap(swapId): io is what the storage does during the call ("ok",
\* "unavailable" for a storage dependency that is gone, or a write that fails
\* underneath saveBodyMap, which does not reach the engine)
ReverseSwap(swapId, io) ==
    /\ IF ~isReady
       THEN /\ eLast' = EResult("reverseSwap", "throw", NoSwap, "", "", <<>>)
            /\ preSwap' = NoStore
            /\ UNCHANGED <<characters, swapRecords, activeSwaps, stats>>
       ELSE IF ~reversible(swapId)
       THEN \* thrown inside safeOperation: logged, the fallback returned
            /\ eLast' = EResult("reverseSwap", "null", swapId, "", "", <<>>)
            /\ preSwap' = NoStore
            /\ UNCHANGED <<characters, swapRecords, activeSwaps, stats>>
       ELSE IF io = "unavailable"
       THEN \* loadCharacterBodyMap throws; the catch inside the operation
            /\ eLast' = EResult("reverseSwap", "failure", swapId, "", "", <<>>)
            /\ preSwap' = NoStore
            /\ UNCHANGED <<characters, swapRecords, activeSwaps, stats>>
       ELSE LET swapData == swapRecords[swapId]
                restoredSourceMap == Spread(loadBodyMap(characters, swapData.sourceCharId),
                                            swapData.originalStates.source)
                restoredTargetMap == Spread(loadBodyMap(characters, swapData.targetCharId),
                                            swapData.originalStates.target)
                saved == saveBodyMap(characters, swapData.sourceCharId, restoredSourceMap)
            IN /\ characters' = saveBodyMap(saved, swapData.targetCharId, restoredTargetMap)
               /\ swapRecords' = markReversed(swapRecords, swapId)
               /\ activeSwaps' = activeSwaps \ {swapId}
               /\ stats' = [stats EXCEPT !.reversedSwaps = @ + 1]
               /\ eLast' = EResult("reverseSwap", "success", swapId,
                                   swapData.sourceCharId, swapData.targetCharId, swapData.zones)
               \* kept only when this call directly follows the performSwap of swapId
               /\ preSwap' = IF eLast.op = "performSwap" /\ eLast.outcome = "success" /\ eLast.swapId = swapId
                             THEN preSwap ELSE NoStore
    /\ UNCHANGED <<initialized, enabled, settings, swapHistory, swapCounter, flights>>

\* ---- the life cycle of the module
\* handleError(context, error, isCritical), called for a failure found
\* anywhere in the module: a critical one disables the module
HandleError(isCritical) ==
    /\ enabled' = IF isCritical THEN FALSE ELSE enabled
    /\ eLast' = EResult("handleError", IF isCritical THEN "critical" ELSE "notCritical", NoSwap, "", "", <<>>)
    /\ preSwap' = NoStore
    /\ UNCHANGED <<characters, initialized, settings, swapRecords, activeSwaps, swapHistory, swapCounter,
                   stats, flights>>

\* initialize() of the engine, on top of ThreadshiftModule.initialize;
\* dependencies is whether garmentZoneMapper and bodyMapValidator are set
Initialize(dependencies) ==
    /\ IF dependencies
       THEN \* initializeSwapTracking: the swaps so far are dropped; no statement
            \* of ThreadshiftModule.initialize or of the engine's initialize
            \* assigns this.enabled
            /\ initialized' = TRUE
            /\ enabled' = enabled
            /\ swapRecords' = <<>>
            /\ activeSwaps' = {}
            /\ swapHistory' = <<>>
            /\ swapCounter' = 0
            /\ stats' = [totalSwaps |-> 0, successfulSwaps |-> 0, failedSwaps |-> 0,
                         reversedSwaps |-> 0, validationErrors |-> 0]
            /\ eLast' = EResult("initialize", "success", NoSwap, "", "", <<>>)
       ELSE \* validateDependencies reports a critical error, which disables
            /\ initialized' = TRUE
            /\ enabled' = FALSE
            /\ eLast' = EResult("initialize", "failure", NoSwap, "", "", <<>>)
            /\ UNCHANGED <<swapRecords, activeSwaps, swapHistory, swapCounter, stats>>
    /\ preSwap' = NoStore
    /\ UNCHANGED <<characters, settings, flights>>

\* enable()
Enable ==
    /\ enabled' = IF initialized THEN TRUE ELSE enabled
    /\ eLast' = EResult("enable", IF initialized THEN "success" ELSE "failure", NoSwap, "", "", <<>>)
    /\ preSwap' = NoStore
    /\ UNCHANGED <<characters, initialized, settings, swapRecords, activeSwaps, swapHistory, swapCounter,
                   stats, flights>>

\* ---- performSwap as the steps between its awaits: several calls can be
\* suspended at once, and other tasks run while they are
Callers == {"a", "b"}

\* a caller with no performSwap in flight
IdleFlight ==
    [pc |-> "idle", swapId |-> NoSwap, sourceCharId |-> "", targetCharId |-> "",
     zones |-> <<>>, todo |-> <<>>, originalStates |-> [source |-> <<>>, target |-> <<>>],
     results |-> <<>>, updatedSourceMap |-> NoMap, updatedTargetMap |-> NoMap,
     record |-> <<>>, behind |-> {}, ticket |-> 0]
NoFlights == [k \in Callers |-> IdleFlight]
InFlight == { k \in Callers : flights[k].pc # "idle" }

\* performSwap from its call to the zone loop of executeSwap: the checks, the
\* validation, generateSwapId and the snapshot of the original states
BeginSwap(k, sourceCharId, targetCharId, zones, valid) ==
    /\ flights[k].pc = "idle"
    /\ stats.totalSwaps < MaxFlightCalls
    /\ IF ~isReady
       THEN /\ eLast' = EResult("performSwap", "throw", NoSwap, "", "", <<>>)
            /\ UNCHANGED <<swapCounter, flights, stats>>
       ELSE
       LET counted == [stats EXCEPT !.totalSwaps = @ + 1]
           validated == settings.autoValidation /\ settings.validateTransformations
           checked == IF validated /\ ~valid
                      THEN [counted EXCEPT !.validationErrors = @ + 1]
                      ELSE counted
       IN IF argumentsRejected(sourceCharId, targetCharId, zones)
          THEN /\ stats' = counted
               /\ eLast' = EResult("performSwap", "null", NoSwap, sourceCharId, targetCharId, zones)
               /\ UNCHANGED <<swapCounter, flights>>
          ELSE IF validationAborts(settings, valid)
          THEN /\ stats' = checked
               /\ eLast' = EResult("performSwap", "null", NoSwap, sourceCharId, targetCharId, zones)
               /\ UNCHANGED <<swapCounter, flights>>
          ELSE /\ stats' = checked
               /\ swapCounter' = swapCounter + 1
               /\ flights' = [flights EXCEPT ![k] =
                      [IdleFlight EXCEPT
                          !.pc = "zone", !.swapId = swapCounter + 1,
                          !.sourceCharId = sourceCharId, !.targetCharId = targetCharId,
                          !.zones = zones, !.todo = zones,
                          !.originalStates =
                              [source |-> cloneBodyMapZones(loadBodyMap(characters, sourceCharId), zones),
                               target |-> cloneBodyMapZones(loadBodyMap(characters, targetCharId), zones)]]]
               /\ UNCHANGED eLast
    /\ preSwap' = NoStore
    /\ UNCHANGED <<characters, initialized, enabled, settings, swapRecords, activeSwaps, swapHistory>>

\* applyZoneSwap for the next zone of the loop, up to its first save: the two
\* body maps are loaded and the updated maps are made from them
ZoneLoad(k) ==
    LET f == flights[k]
        zone == Head(f.todo)
        sourceBodyMap == loadBodyMap(characters, f.sourceCharId)
        targetBodyMap == loadBodyMap(characters, f.targetCharId)
    IN /\ f.pc = "zone" /\ f.todo # <<>>
       /\ IF sourceBodyMap = NoMap \/ targetBodyMap = NoMap
          THEN \* throws 'Missing body map for character', caught in place
               flights' = [flights EXCEPT ![k].todo = Tail(@),
                                          ![k].results = Append(@, [zone |-> zone, success |-> FALSE])]
          ELSE flights' = [flights EXCEPT
                              ![k].pc = "saveSource",
                              ![k].updatedSourceMap = [sourceBodyMap EXCEPT ![zone] = targetBodyMap[zone]],
                              ![k].updatedTargetMap = [targetBodyMap EXCEPT ![zone] = sourceBodyMap[zone]]]
       /\ UNCHANGED <<characters, initialized, enabled, settings, swapRecords, activeSwaps, swapHistory, swapCounter,
                      stats, eLast, preSwap>>

\* applyZoneSwap: await this.saveCharacterBodyMap(sourceCharId, updatedSourceMap)
SaveSource(k) ==
    LET f == flights[k]
    IN /\ f.pc = "saveSource"
       /\ characters' = saveBodyMap(characters, f.sourceCharId, f.updatedSourceMap)
       /\ flights' = [flights EXCEPT ![k].pc = "saveTarget"]
       /\ UNCHANGED <<initialized, enabled, settings, swapRecords, activeSwaps, swapHistory, swapCounter,
                      stats, eLast, preSwap>>

\* applyZoneSwap: await this.saveCharacterBodyMap(targetCharId, updatedTargetMap),
\* and the zone result pushed by executeSwap
SaveTarget(k) ==
    LET f == flights[k]
    IN /\ f.pc = "saveTarget"
       /\ characters' = saveBodyMap(characters, f.targetCharId, f.updatedTargetMap)
       /\ flights' = [flights EXCEPT ![k].pc = "zone",
                                     ![k].todo = Tail(@),
                                     ![k].results = Append(@, [zone |-> Head(f.todo), success |-> TRUE]),
                                     ![k].updatedSourceMap = NoMap,
                                     ![k].updatedTargetMap = NoMap]
       /\ UNCHANGED <<initialized, enabled, settings, swapRecords, activeSwaps, swapHistory, swapCounter,
                      stats, eLast, preSwap>>

\* executeSwap after the zone loop, and the rest of performSwap
FinishSwap(k, reciprocal) ==
    LET f == flights[k]
        swapData == [id |-> f.swapId,
                     sourceCharId |-> f.sourceCharId,
                     targetCharId |-> f.targetCharId,
                     zones |-> f.zones,
                     status |-> "active",
                     originalStates |-> f.originalStates]
    IN /\ f.pc = "zone" /\ f.todo = <<>>
       /\ flights' = [flights EXCEPT ![k] = IdleFlight]
       /\ IF reciprocal = "throw"
          THEN \* the catch of executeSwap
               /\ stats' = [stats EXCEPT !.failedSwaps = @ + 1, !.successfulSwaps = @ + 1]
               /\ eLast' = EResult("performSwap", "failure", f.swapId, f.sourceCharId, f.targetCharId, f.zones)
               /\ UNCHANGED <<swapRecords, activeSwaps, swapHistory>>
          ELSE /\ swapRecords' = (f.swapId :> swapData) @@ swapRecords
               /\ activeSwaps' = activeSwaps \cup {f.swapId}
               /\ swapHistory' = addToHistory(swapHistory, f.swapId, settings.historyLimit)
               /\ stats' = [stats EXCEPT !.successfulSwaps = @ + 1]
               /\ eLast' = [EResult("performSwap", "success", f.swapId, f.sourceCharId, f.targetCharId, f.zones)
                               EXCEPT !.results = f.results]
       /\ preSwap' = NoStore
       /\ UNCHANGED <<characters, initialized, enabled, settings, swapCounter>>

\* reverseSwap(swapId) up to its first await, of loadCharacterBodyMap: isReady
\* and the checks of the swap data
BeginReverse(k, swapId) ==
    /\ flights[k].pc = "idle"
    /\ IF ~isReady
       THEN /\ eLast' = EResult("reverseSwap", "throw", NoSwap, "", "", <<>>)
            /\ UNCHANGED flights
       ELSE IF ~reversible(swapId)
       THEN /\ eLast' = EResult("reverseSwap", "null", swapId, "", "", <<>>)
            /\ UNCHANGED flights
       ELSE /\ flights' = [flights EXCEPT ![k] = [IdleFlight EXCEPT !.pc = "restore", !.swapId = swapId]]
            /\ UNCHANGED eLast
    /\ preSwap' = NoStore
    /\ UNCHANGED <<characters, initialized, enabled, settings, swapRecords, activeSwaps, swapHistory,
                   swapCounter, stats>>

\* reverseSwap: the two maps are loaded and the restored maps are made
RestoreLoad(k) ==
    LET swapData == swapRecords[flights[k].swapId]
    IN /\ flights[k].pc = "restore"
       /\ flights' = [flights EXCEPT
              ![k].pc = "restoreSource",
              ![k].updatedSourceMap = Spread(loadBodyMap(characters, swapData.sourceCharId),
                                             swapData.originalStates.source),
              ![k].updatedTargetMap = Spread(loadBodyMap(characters, swapData.targetCharId),
                                             swapData.originalStates.target)]
       /\ UNCHANGED <<characters, initialized, enabled, settings, swapRecords, activeSwaps, swapHistory,
                      swapCounter, stats, eLast, preSwap>>

\* reverseSwap: await this.saveCharacterBodyMap(swapData.sourceCharId, restoredSourceMap)
RestoreSource(k) ==
    LET swapData == swapRecords[flights[k].swapId]
    IN /\ flights[k].pc = "restoreSource"
       /\ characters' = saveBodyMap(characters, swapData.sourceCharId, flights[k].updatedSourceMap)
       /\ flights' = [flights EXCEPT ![k].pc = "restoreTarget"]
       /\ UNCHANGED <<initialized, enabled, settings, swapRecords, activeSwaps, swapHistory,
                      swapCounter, stats, eLast, preSwap>>

\* reverseSwap from the save of the restored target map on: the swap data is
\* marked, the counter is increased and the result object is returned
FinishReverse(k) ==
    LET swapId == flights[k].swapId
        swapData == swapRecords[swapId]
    IN /\ flights[k].pc = "restoreTarget"
       /\ flights' = [flights EXCEPT ![k] = IdleFlight]
       /\ characters' = saveBodyMap(characters, swapData.targetCharId, flights[k].updatedTargetMap)
       /\ swapRecords' = markReversed(swapRecords, swapId)
       /\ activeSwaps' = activeSwaps \ {swapId}
       /\ stats' = [stats EXCEPT !.reversedSwaps = @ + 1]
       /\ eLast' = EResult("reverseSwap", "success", swapId,
                           swapData.sourceCharId, swapData.targetCharId, swapData.zones)
       /\ preSwap' = NoStore
       /\ UNCHANGED <<initialized, enabled, settings, swapHistory, swapCounter>>

\* another task deletes the stored body map of a character (deleteCharacter
\* of the multi-character handler does, through storage.deleteBodyMap)
DeleteBodyMap(id) ==
    /\ hasBodyMap(characters, id)
    /\ characters' = deleteBodyMap(characters, id)
    /\ UNCHANGED engineVars

\* ---- the calls the engine receives, and the states it starts from
ZoneLists == { <<>>, <<"chest">>, <<"waist">>, <<"chest", "waist">>, <<"waist", "chest">> }
ReciprocalOutcomes == {"ok", "throw"}

\* The characters record at the start: c1 and c2 are stored, with zones that
\* are missing, empty or set; c3 is not stored.
InitialMaps(c) ==
    IF c = "c1" THEN { [chest |-> x, waist |-> y] : x \in {Undefined, EmptyStr, "flat"}, y \in {Undefined, "slim"} }
    ELSE IF c = "c2" THEN { [chest |-> x, waist |-> "wide"] : x \in {Undefined, "large"} }
    ELSE {NoMap}
InitialStores == { st \in [Chars -> UNION { InitialMaps(c) : c \in Chars }] : \A c \in Chars : st[c] \in InitialMaps(c) }

\* after the constructor and initialize(): the defaults of this.settings, with
\* engine.allowPartialTransformations and performance.maxHistoryEntries as
\* loadSettingsFromConfig reads them from the configuration
InitEngine ==
    /\ initialized = TRUE
    /\ enabled = TRUE
    /\ settings \in { [autoValidation |-> TRUE, validateTransformations |-> TRUE,
                       allowPartialTransformations |-> p, historyLimit |-> MaxHistoryConfig]
                      : p \in BOOLEAN }
    /\ swapRecords = <<>>
    /\ activeSwaps = {}
    /\ swapHistory = <<>>
    /\ swapCounter = 0
    /\ stats = [totalSwaps |-> 0, successfulSwaps |-> 0, failedSwaps |-> 0,
                reversedSwaps |-> 0, validationErrors |-> 0]
    /\ eLast = EResult("none", "none", NoSwap, "", "", <<>>)
    /\ preSwap = NoStore
    /\ flights = NoFlights

(***************************************************************************)
(* ThreadshiftHistoryTracker                                               *)
(***************************************************************************)
\* this.entryTypes
entryTypes == {"swap", "reverse", "batch", "manual", "import", "system"}

\* The data of an entry: an object (kind "obj", with the swap it refers to,
\* 0 for none), a truthy value that is no object (kind "str"), or a falsy
\* value (kind "none").
ObjData(swapId) == [kind |-> "obj", swapId |-> swapId]
StrData == [kind |-> "str", swapId |-> NoSwap]
NoData == [kind |-> "none", swapId |-> NoSwap]

\* createHistoryEntry: generateEntryId embeds Date.now(), and the timestamp
\* is the same instant, so one number stands for both.
createHistoryEntry(type, data, t) == [id |-> t, timestamp |-> t, type |-> type, data |-> data]

\* validateHistoryEntry: every required field is truthy and the type is known
validateHistoryEntry(entry) ==
    /\ entry.data.kind # "none"
    /\ entry.type \in entryTypes

\* Array.prototype.slice(from) for 0 <= from
SliceFrom(h, from) == SubSeq(h, from + 1, Len(h))
\* Array.prototype.slice(0, to) for 0 <= to
SliceTo(h, to) == SubSeq(h, 1, Min(to, Len(h)))

\* A history-and-index pair, the part of the tracker the helpers rewrite
HState(h, i) == [history |-> h, currentIndex |-> i]

\* enforceHistoryLimit, with this.maxHistorySize = n
enforceHistoryLimit(s, n) ==
    IF Len(s.history) > n
    THEN LET excess == Len(s.history) - n
         IN HState(SliceFrom(s.history, excess), Max(0, s.currentIndex - excess))
    ELSE s

addEntryToHistoryNoTruncate(s, entry, n) ==
    LET pushed == Append(s.history, entry)
    IN enforceHistoryLimit(HState(pushed, Len(pushed) - 1), n)

\* addEntryToHistory
addEntryToHistory(s, entry, n) ==
    LET kept == IF s.currentIndex < Len(s.history) - 1
                THEN SliceTo(s.history, s.currentIndex + 1)
                ELSE s.history
        pushed == Append(kept, entry)
    IN enforceHistoryLimit(HState(pushed, Len(pushed) - 1), n)

\* canUndo / canRedo
canUndo(s) == s.currentIndex >= 0 /\ Len(s.history) > 0
canRedo(s) == s.currentIndex < Len(s.history) - 1

\* executeUndo / executeRedo: the placeholder result, always a success, and
\* no call into the swap engine
executeUndo(entry) == [success |-> TRUE]
executeRedo(entry) == [success |-> TRUE]

\* cleanupOrphanedReferences: keeps the entries whose data is an object
IsObjectData(entry) == entry.data.kind = "obj"
cleanupOrphanedReferences(s) ==
    LET kept == SelectSeq(s.history, IsObjectData)
    IN IF Len(kept) # Len(s.history)
       THEN HState(kept, Min(s.currentIndex, Len(kept) - 1))
       ELSE s

\* Array.prototype.sort((a, b) => a.timestamp - b.timestamp): a stable
\* insertion of each element after the elements that are not later
RECURSIVE InsertByTimestamp(_, _)
InsertByTimestamp(sorted, e) ==
    IF sorted = <<>> THEN <<e>>
    ELSE IF Head(sorted).timestamp <= e.timestamp
         THEN <<Head(sorted)>> \o InsertByTimestamp(Tail(sorted), e)
         ELSE <<e>> \o sorted
RECURSIVE SortByTimestamp(_)
SortByTimestamp(h) ==
    IF h = <<>> THEN <<>>
    ELSE InsertByTimestamp(SortByTimestamp(SubSeq(h, 1, Len(h) - 1)), h[Len(h)])

NoEntry == [id |-> 0, timestamp |-> 0, type |-> "none", data |-> NoData]
\* What hLast holds: the call, whether it reported success, the entry it
\* recorded, undid or redid, how many entries after the index the call cut
\* off, how many entries over capacity it found at the head, and, from a
\* successful undo until the call after the redo that follows it, the state
\* the undo started from.
NoSnap == [taken |-> FALSE, redone |-> FALSE, history |-> <<>>, currentIndex |-> -1, characters |-> <<>>]
Snap(h, i, c) == [taken |-> TRUE, redone |-> FALSE, history |-> h, currentIndex |-> i, characters |-> c]
HResult(op, success, entry, snap) ==
    [op |-> op, success |-> success, entry |-> entry, cut |-> 0, over |-> 0, snap |-> snap]
Over(len, n) == IF len > n THEN len - n ELSE 0

Here == HState(history, currentIndex)
SetTracker(s) == history' = s.history /\ currentIndex' = s.currentIndex

\* recordTransformation(type, data, description); isRecording is true in
\* every configuration (getConfig returns the default for a falsy value)
RecordTransformation(type, data) ==
    /\ clock < MaxClock
    /\ LET entry == createHistoryEntry(type, data, clock + 1)
       IN IF validateHistoryEntry(entry)
          THEN /\ SetTracker(addEntryToHistory(Here, entry, maxHistorySize))
               /\ clock' = clock + 1
               /\ LET cut == IF currentIndex < Len(history) - 1
                             THEN Len(history) - (currentIndex + 1) ELSE 0
                  IN hLast' = [HResult("record", TRUE, entry, NoSnap) EXCEPT
                                 !.cut = cut,
                                 !.over = Over(Len(history) - cut + 1, maxHistorySize)]
          ELSE /\ UNCHANGED <<history, currentIndex, clock>>
               /\ hLast' = HResult("record", FALSE, NoEntry, NoSnap)
    /\ UNCHANGED <<maxHistorySize, undoing>>

undoDecrementsTwice(s) == s.currentIndex - 2

\* undo: the index after a successful executeUndo
undoIndex(s) == s.currentIndex - 1

\* undo()
Undo ==
    /\ IF ~canUndo(Here)
       THEN /\ UNCHANGED <<history, currentIndex>>
            /\ hLast' = HResult("undo", FALSE, NoEntry, NoSnap)
       ELSE IF currentIndex + 1 > Len(history)
       THEN \* history[currentIndex] is undefined: executeUndo throws, caught
            /\ UNCHANGED <<history, currentIndex>>
            /\ hLast' = HResult("undo", FALSE, NoEntry, NoSnap)
       ELSE LET entry == history[currentIndex + 1]
                result == executeUndo(entry)
            IN IF result.success
               THEN /\ currentIndex' = undoIndex(Here)
                    /\ history' = history
                    /\ hLast' = HResult("undo", TRUE, entry, Snap(history, currentIndex, characters))
               ELSE /\ UNCHANGED <<history, currentIndex>>
                    /\ hLast' = HResult("undo", FALSE, entry, NoSnap)
    /\ UNCHANGED <<maxHistorySize, clock, undoing>>

\* ---- undo() in its steps: two callers, each with at most one undo in flight
IdleUndo == [pc |-> "idle", entry |-> NoEntry]
NoUndoing == [k \in Callers |-> IdleUndo]

\* undo() up to await this.executeUndo(entry)
BeginUndo(k) ==
    /\ undoing[k].pc = "idle"
    /\ IF ~canUndo(Here) \/ currentIndex + 1 > Len(history)
       THEN \* 'No operations to undo', or executeUndo throws for an undefined entry
            /\ hLast' = HResult("undo", FALSE, NoEntry, NoSnap)
            /\ UNCHANGED undoing
       ELSE /\ undoing' = [undoing EXCEPT ![k] = [pc |-> "execute", entry |-> history[currentIndex + 1]]]
            /\ UNCHANGED hLast
    /\ UNCHANGED <<history, currentIndex, maxHistorySize, clock>>

\* undo() after await this.executeUndo(entry)
FinishUndo(k) ==
    LET entry == undoing[k].entry
        result == executeUndo(entry)
    IN /\ undoing[k].pc = "execute"
       /\ undoing' = [undoing EXCEPT ![k] = IdleUndo]
       /\ IF result.success
          THEN /\ currentIndex' = undoIndex(Here)
               /\ hLast' = HResult("undo", TRUE, entry, Snap(history, currentIndex, characters))
          ELSE /\ UNCHANGED currentIndex
               /\ hLast' = HResult("undo", FALSE, entry, NoSnap)
       /\ UNCHANGED <<history, maxHistorySize, clock>>

\* saveToStorage() of the History Stack: storage.saveToStorage('history',
\* this.history), the write performed
TrackerSaveToStorage ==
    /\ storedHistory' = storageData(JsArray(history))
    /\ hLast' = HResult("saveToStorage", TRUE, NoEntry, NoSnap)
    /\ UNCHANGED <<history, currentIndex, maxHistorySize, clock, undoing>>

\* loadHistoryFromStorage, for s the History Stack as constructed
loadHistoryFromStorage(s, stored) ==
    LET loaded == loadFromStorage(stored, JsArray(<<>>))
    IN IF loaded.kind = "array" /\ Len(loaded.items) > 0
       THEN HState(loaded.items, Len(loaded.items) - 1)
       ELSE s

\* initialize() of a newly constructed History Stack, over the same storage
LoadHistoryFromStorage ==
    /\ SetTracker(loadHistoryFromStorage(HState(<<>>, -1), storedHistory))
    /\ hLast' = HResult("loadHistoryFromStorage", TRUE, NoEntry, NoSnap)
    /\ undoing' = NoUndoing
    /\ UNCHANGED <<maxHistorySize, clock>>

redoStaysPut(s) == s.currentIndex

\* redo: this.currentIndex++ before executeRedo
redoIndex(s) == s.currentIndex + 1

\* redo()
Redo ==
    /\ IF ~canRedo(Here)
       THEN /\ UNCHANGED <<history, currentIndex>>
            /\ hLast' = HResult("redo", FALSE, NoEntry, NoSnap)
       ELSE LET stepped == redoIndex(Here)
            IN IF stepped + 1 \notin 1..Len(history)
               THEN \* history[currentIndex] is undefined: executeRedo throws,
                    \* and the catch takes the step back
                    /\ currentIndex' = stepped - 1
                    /\ history' = history
                    /\ hLast' = HResult("redo", FALSE, NoEntry, NoSnap)
               ELSE LET entry == history[stepped + 1]
                        result == executeRedo(entry)
                        snap == IF hLast.op = "undo" /\ hLast.success
                                THEN [hLast.snap EXCEPT !.redone = TRUE]
                                ELSE NoSnap
                    IN IF result.success
                       THEN /\ currentIndex' = stepped
                            /\ history' = history
                            /\ hLast' = HResult("redo", TRUE, entry, snap)
                       ELSE \* this.currentIndex-- takes the step back
                            /\ currentIndex' = stepped - 1
                            /\ history' = history
                            /\ hLast' = HResult("redo", FALSE, entry, NoSnap)
    /\ UNCHANGED <<maxHistorySize, clock, undoing>>

\* clearHistory(confirm)
ClearHistory(confirm) ==
    /\ IF confirm
       THEN /\ history' = <<>>
            /\ currentIndex' = -1
            /\ hLast' = HResult("clear", TRUE, NoEntry, NoSnap)
       ELSE /\ UNCHANGED <<history, currentIndex>>
            /\ hLast' = HResult("clear", FALSE, NoEntry, NoSnap)
    /\ UNCHANGED <<maxHistorySize, clock, undoing>>

\* validateImportData: an object with a history array and a supported version
\* importHistory(importData, options)
ImportHistory(importData, merge) ==
    /\ IF ~importData.wellFormed
       THEN /\ UNCHANGED <<history, currentIndex>>
            /\ hLast' = HResult("import", FALSE, NoEntry, NoSnap)
       ELSE LET valid == SelectSeq(importData.history, validateHistoryEntry)
                merged == IF merge THEN SortByTimestamp(history \o valid) ELSE valid
            IN /\ SetTracker(enforceHistoryLimit(HState(merged, Len(merged) - 1), maxHistorySize))
               /\ hLast' = HResult("import", TRUE, NoEntry, NoSnap)
    /\ UNCHANGED <<maxHistorySize, clock, undoing>>

\* performCleanup
PerformCleanup ==
    /\ SetTracker(cleanupOrphanedReferences(enforceHistoryLimit(Here, maxHistorySize)))
    /\ hLast' = HResult("cleanup", TRUE, NoEntry, NoSnap)
    /\ UNCHANGED <<maxHistorySize, clock, undoing>>

\* the config-changed listener of setupEventListeners
ConfigChanged(key, value) ==
    /\ IF key = "performance.maxHistoryEntries"
       THEN /\ maxHistorySize' = value
            /\ SetTracker(enforceHistoryLimit(Here, value))
            /\ hLast' = [HResult("config", TRUE, NoEntry, NoSnap) EXCEPT
                            !.over = Over(Len(history), value)]
       ELSE /\ UNCHANGED <<history, currentIndex, maxHistorySize>>
            /\ hLast' = HResult("config", FALSE, NoEntry, NoSnap)
    /\ UNCHANGED <<clock, undoing>>

(***************************************************************************)
(* ThreadshiftMultiCharacterHandler                                        *)
(***************************************************************************)
\* this.activeCharacterId = null
NoChar == ""
\* this.defaultCharacterId
defaultCharacterId == "c1"
\* maxAge of cleanupInactiveCharacters (30 minutes), in clock steps
maxAge == 1

\* {} as a body map
EmptyMap == [z \in Zones |-> Undefined]

\* A character state, as far as the cache distinguishes states: its body map
CState(bodyMap) == [bodyMap |-> bodyMap]
createDefaultCharacterState == CState(EmptyMap)
\* calculateStateSize: the length of the state's JSON text grows with every
\* zone the body map holds; one unit for the fixed fields, one for each zone
calculateStateSize(state) == 1 + Cardinality({ z \in Zones : state.bodyMap[z] # Undefined })

\* The handler's cache as one value: what the helpers take and give back
CacheState ==
    [active |-> activeCharacterId, cache |-> characterCache, times |-> lastAccessTimes,
     mem |-> memoryUsageBytes, store |-> characters]

\* Map.prototype.set / delete on lastAccessTimes: a key that is set again
\* keeps its place
TimesSet(times, id, t) ==
    IF \E k \in 1..Len(times) : times[k].id = id
    THEN [k \in 1..Len(times) |-> IF times[k].id = id THEN [id |-> id, timestamp |-> t] ELSE times[k]]
    ELSE Append(times, [id |-> id, timestamp |-> t])
TimesDelete(times, id) == SelectSeq(times, LAMBDA e : e.id # id)
\* characterCache.delete, characterStates.delete, lastAccessTimes.delete
Uncache(c, id) ==
    [c EXCEPT !.cache = [x \in (DOMAIN c.cache) \ {id} |-> c.cache[x]],
              !.times = TimesDelete(c.times, id)]

\* saveCharacterState(characterId): the cached state's body map goes to storage
saveCharacterState(c, id) ==
    IF id \in DOMAIN c.cache
    THEN [c EXCEPT !.store = saveBodyMap(c.store, id, c.cache[id].bodyMap)]
    ELSE c

evictionCandidatesAll(c) == SortByTimestamp(c.times)

\* evictCharacters: sortedCharacters, every entry but the active character's,
\* least recently used first
evictionCandidates(c) == SortByTimestamp(SelectSeq(c.times, LAMBDA e : e.id # c.active))

\* evictCharacters: the loop that fills toEvict
RECURSIVE toEvict(_, _, _, _, _)
toEvict(sorted, c, requiredBytes, picked, bytesFreed) ==
    IF sorted = <<>> THEN picked
    ELSE LET id == Head(sorted).id
         IN IF id \notin DOMAIN c.cache
            THEN toEvict(Tail(sorted), c, requiredBytes, picked, bytesFreed)
            ELSE LET freed == bytesFreed + calculateStateSize(c.cache[id])
                     pushed == Append(picked, id)
                 IN IF freed >= requiredBytes
                       /\ Cardinality(DOMAIN c.cache) - Len(pushed) < maxCachedCharacters
                    THEN pushed
                    ELSE toEvict(Tail(sorted), c, requiredBytes, pushed, freed)

\* evictCharacters: the loop over toEvict (autoSaveEnabled)
RECURSIVE evictEach(_, _)
evictEach(c, ids) ==
    IF ids = <<>> THEN c
    ELSE LET id == Head(ids)
             stateSize == calculateStateSize(c.cache[id])
             gone == [Uncache(saveCharacterState(c, id), id) EXCEPT !.mem = @ - stateSize]
         IN evictEach(gone, Tail(ids))

evictNothing(c, requiredBytes) == c

\* evictCharacters(requiredBytes)
evictCharacters(c, requiredBytes) ==
    IF DOMAIN c.cache = {} THEN c
    ELSE evictEach(c, toEvict(evictionCandidates(c), c, requiredBytes, <<>>, 0))

\* cacheCharacter(characterId, state)
cacheCharacter(c, id, state, t) ==
    LET stateSize == calculateStateSize(state)
        roomy == IF c.mem + stateSize > maxMemoryBytes THEN evictCharacters(c, stateSize) ELSE c
        few == IF Cardinality(DOMAIN roomy.cache) >= maxCachedCharacters
               THEN evictCharacters(roomy, 0) ELSE roomy
    IN [few EXCEPT !.cache = (id :> state) @@ few.cache,
                   !.times = TimesSet(few.times, id, t),
                   !.mem = few.mem + stateSize]

\* characterExists
characterExists(c, id) == id \in DOMAIN c.cache \/ hasBodyMap(c.store, id)

\* createCharacter, past its characterExists check
createCharacter(c, id, t) ==
    cacheCharacter([c EXCEPT !.store = saveBodyMap(c.store, id, EmptyMap)],
                   id, createDefaultCharacterState, t)

loadCharacterStateCreatingAny(c, id, t) ==
    IF id \in DOMAIN c.cache
    THEN [c EXCEPT !.times = TimesSet(c.times, id, t)]
    ELSE LET bodyMap == loadBodyMap(c.store, id)
         IN IF bodyMap = NoMap
            THEN createCharacter(c, id, t)
            ELSE cacheCharacter(c, id, CState(bodyMap), t)

\* loadCharacterState(characterId)
loadCharacterState(c, id, t) ==
    IF id \in DOMAIN c.cache
    THEN [c EXCEPT !.times = TimesSet(c.times, id, t)]
    ELSE LET bodyMap == loadBodyMap(c.store, id)
         IN IF bodyMap = NoMap
            THEN IF id = defaultCharacterId THEN createCharacter(c, id, t) ELSE c
            ELSE cacheCharacter(c, id, CState(bodyMap), t)

\* loadCharacterState returns null: the character is in neither the cache nor
\* the store, and is not the default character
loadReturnsNull(c, id) ==
    /\ id \notin DOMAIN c.cache
    /\ loadBodyMap(c.store, id) = NoMap
    /\ id # defaultCharacterId

\* what cLast holds: the call that removed cache entries (cacheCharacter when
\* the eviction was made for an insertion), if entries that were there before
\* the last call are gone after it, and "none" otherwise
CResult(op, before, after) ==
    IF (DOMAIN before.cache) \ (DOMAIN after.cache) # {} THEN op ELSE "none"
SetCache(c) ==
    /\ activeCharacterId' = c.active
    /\ characterCache' = c.cache
    /\ lastAccessTimes' = c.times
    /\ memoryUsageBytes' = c.mem
    /\ characters' = c.store

\* switchCharacter(characterId, options)
SwitchCharacter(id, createIfMissing) ==
    /\ memoryUsageBytes <= MaxMemoryUsage
    /\ LET c == CacheState
       IN IF ~characterExists(c, id) /\ ~createIfMissing
          THEN \* throws 'not found'
               /\ SetCache(c)
               /\ cLast' = CResult("cacheCharacter", c, c)
          ELSE LET saved == IF c.active # NoChar /\ c.active # id
                            THEN saveCharacterState(c, c.active) ELSE c
                   loaded == loadCharacterState(saved, id, now)
                   switched == [loaded EXCEPT !.active = id, !.times = TimesSet(loaded.times, id, now)]
               IN /\ SetCache(switched)
                  /\ cLast' = CResult("cacheCharacter", c, switched)
    /\ UNCHANGED <<maxCachedCharacters, maxMemoryBytes, now, isProcessingSwitches, switching, flushing>>

\* createCharacter(characterId)
CreateCharacter(id) ==
    /\ memoryUsageBytes <= MaxMemoryUsage
    /\ LET c == CacheState
       IN IF characterExists(c, id)
          THEN \* throws 'already exists'
               /\ SetCache(c)
               /\ cLast' = CResult("cacheCharacter", c, c)
          ELSE LET created == createCharacter(c, id, now)
               IN /\ SetCache(created)
                  /\ cLast' = CResult("cacheCharacter", c, created)
    /\ UNCHANGED <<maxCachedCharacters, maxMemoryBytes, now, isProcessingSwitches, switching, flushing>>

\* deleteCharacter(characterId)
DeleteCharacter(id) ==
    /\ LET c == CacheState
       IN IF c.active = id
          THEN \* throws 'Cannot delete active character'
               /\ SetCache(c)
               /\ cLast' = CResult("deleteCharacter", c, c)
          ELSE LET deleted == [Uncache(c, id) EXCEPT !.store = deleteBodyMap(c.store, id)]
               IN /\ SetCache(deleted)
                  /\ cLast' = CResult("deleteCharacter", c, deleted)
    /\ UNCHANGED <<maxCachedCharacters, maxMemoryBytes, now, isProcessingSwitches, switching, flushing>>

\* loadCharacterState(characterId), called from outside
LoadCharacterState(id) ==
    /\ memoryUsageBytes <= MaxMemoryUsage
    /\ LET c == CacheState
           loaded == loadCharacterState(c, id, now)
       IN /\ SetCache(loaded)
          /\ cLast' = IF loadReturnsNull(c, id) THEN "notFound"
                      ELSE CResult("cacheCharacter", c, loaded)
    /\ UNCHANGED <<maxCachedCharacters, maxMemoryBytes, now, isProcessingSwitches, switching, flushing>>

\* evictCharacters(requiredBytes), called from outside
EvictCharacters(requiredBytes) ==
    /\ LET c == CacheState
           evicted == evictCharacters(c, requiredBytes)
       IN /\ SetCache(evicted)
          /\ cLast' = CResult("evictCharacters", c, evicted)
    /\ UNCHANGED <<maxCachedCharacters, maxMemoryBytes, now, isProcessingSwitches, switching, flushing>>

\* cleanupInactiveCharacters: the loop over toCleanup
RECURSIVE cleanupEach(_, _)
cleanupEach(c, ids) ==
    IF ids = <<>> THEN c
    ELSE LET id == Head(ids)
             saved == saveCharacterState(c, id)
             freed == IF id \in DOMAIN c.cache
                      THEN [saved EXCEPT !.mem = @ - calculateStateSize(c.cache[id])]
                      ELSE saved
         IN cleanupEach(Uncache(freed, id), Tail(ids))

\* cleanupInactiveCharacters, on its timer
CleanupInactiveCharacters ==
    /\ LET c == CacheState
           toCleanup == SelectSeq(c.times, LAMBDA e : e.id # c.active /\ now - e.timestamp > maxAge)
           cleaned == cleanupEach(c, [k \in 1..Len(toCleanup) |-> toCleanup[k].id])
       IN /\ SetCache(cleaned)
          /\ cLast' = CResult("cleanupInactiveCharacters", c, cleaned)
    /\ UNCHANGED <<maxCachedCharacters, maxMemoryBytes, now, isProcessingSwitches, switching, flushing>>

\* time passes
Tick ==
    /\ now < MaxNow
    /\ now' = now + 1
    /\ UNCHANGED <<characters, activeCharacterId, characterCache, lastAccessTimes, memoryUsageBytes,
                   maxCachedCharacters, maxMemoryBytes, cLast, isProcessingSwitches, switching, flushing>>

\* ---- eviction and cleanup with their flushes in flight: a pass starts
\* saveCharacterState for each entry without awaiting it and removes the entry
evictEntryLater(c, id) == c

\* evictCharacters / cleanupInactiveCharacters: the entry leaves the cache and
\* its size leaves memoryUsageBytes
evictEntry(c, id) ==
    [Uncache(c, id) EXCEPT !.mem = @ - calculateStateSize(c.cache[id])]

\* the loop of a pass over the chosen ids: p.c is the cache, p.fl the flushes
\* in flight; saveCharacterState reads the cached state before its first
\* await, so the flush carries the body map the entry held
RECURSIVE passEach(_, _)
passEach(p, ids) ==
    IF ids = <<>> THEN p
    ELSE LET id == Head(ids)
         IN IF id \notin DOMAIN p.c.cache
            THEN passEach([p EXCEPT !.c = Uncache(p.c, id)], Tail(ids))
            ELSE passEach([c |-> evictEntry(p.c, id),
                           fl |-> Append(p.fl, [id |-> id, bodyMap |-> p.c.cache[id].bodyMap])],
                          Tail(ids))

\* evictCharacters(requiredBytes), the flushes left in flight
EvictPass(requiredBytes) ==
    /\ Len(flushing) < MaxFlushes
    /\ LET c == CacheState
           ids == IF DOMAIN c.cache = {} THEN <<>>
                  ELSE toEvict(evictionCandidates(c), c, requiredBytes, <<>>, 0)
           passed == passEach([c |-> c, fl |-> flushing], ids)
       IN /\ SetCache(passed.c)
          /\ flushing' = passed.fl
          /\ cLast' = CResult("evictCharacters", c, passed.c)
    /\ UNCHANGED <<maxCachedCharacters, maxMemoryBytes, now, isProcessingSwitches, switching>>

\* cleanupInactiveCharacters, the flushes left in flight
CleanupPass ==
    /\ Len(flushing) < MaxFlushes
    /\ LET c == CacheState
           toCleanup == SelectSeq(c.times, LAMBDA e : e.id # c.active /\ now - e.timestamp > maxAge)
           passed == passEach([c |-> c, fl |-> flushing], [k \in 1..Len(toCleanup) |-> toCleanup[k].id])
       IN /\ SetCache(passed.c)
          /\ flushing' = passed.fl
          /\ cLast' = CResult("cleanupInactiveCharacters", c, passed.c)
    /\ UNCHANGED <<maxCachedCharacters, maxMemoryBytes, now, isProcessingSwitches, switching>>

\* a flush settles: storage.saveBodyMap has written the body map, or has
\* thrown, which saveCharacterState catches and logs
FlushSettles(k, saved) ==
    /\ k \in 1..Len(flushing)
    /\ characters' = IF saved THEN saveBodyMap(characters, flushing[k].id, flushing[k].bodyMap)
                     ELSE characters
    /\ flushing' = [i \in 1..(Len(flushing) - 1) |-> IF i < k THEN flushing[i] ELSE flushing[i + 1]]
    /\ cLast' = IF saved THEN "flushed" ELSE "flushFailed"
    /\ UNCHANGED <<activeCharacterId, characterCache, lastAccessTimes, memoryUsageBytes,
                   maxCachedCharacters, maxMemoryBytes, now, isProcessingSwitches, switching>>

\* shutdown(): saveAllPendingStates finds pendingStateWrites empty (nothing
\* ever adds to it), then the caches are cleared
Shutdown ==
    /\ characterCache # <<>>
    /\ characterCache' = <<>>
    /\ lastAccessTimes' = <<>>
    /\ cLast' = "shutdown"
    /\ UNCHANGED <<characters, activeCharacterId, memoryUsageBytes, maxCachedCharacters, maxMemoryBytes,
                   now, isProcessingSwitches, switching, flushing>>

\* ---- switchCharacter as the steps between its awaits
\* a caller with no switchCharacter in flight; last is how its last call
\* ended ("busy" for 'Character switch already in progress', "notFound",
\* "success")
IdleSwitch == [pc |-> "idle", characterId |-> NoChar, createIfMissing |-> FALSE,
               oldCharacterId |-> NoChar, last |-> "none"]
NoSwitches == [k \in Callers |-> IdleSwitch]
Switching == { k \in Callers : switching[k].pc # "idle" }

switchNeverRejected(processing, force) == FALSE

\* switchCharacter: whether the call throws 'Character switch already in
\* progress'
switchRejected(processing, force) == processing /\ ~force

\* switchCharacter from its call to the await of characterExists
BeginSwitch(k, id, createIfMissing, force) ==
    /\ switching[k].pc = "idle"
    /\ memoryUsageBytes <= MaxMemoryUsage
    /\ IF switchRejected(isProcessingSwitches, force)
       THEN \* thrown before the try: the finally block does not run
            /\ switching' = [switching EXCEPT ![k] = [IdleSwitch EXCEPT !.last = "busy"]]
            /\ UNCHANGED isProcessingSwitches
       ELSE /\ switching' = [switching EXCEPT ![k] =
                   [IdleSwitch EXCEPT !.pc = "exists", !.characterId = id,
                                      !.createIfMissing = createIfMissing,
                                      !.oldCharacterId = activeCharacterId]]
            /\ isProcessingSwitches' = TRUE
    /\ UNCHANGED <<characters, activeCharacterId, characterCache, lastAccessTimes, memoryUsageBytes,
                   maxCachedCharacters, maxMemoryBytes, now, cLast, flushing>>

\* switchCharacter: characterExists has answered
SwitchExists(k) ==
    LET w == switching[k]
    IN /\ w.pc = "exists"
       /\ IF ~characterExists(CacheState, w.characterId) /\ ~w.createIfMissing
          THEN \* throws 'not found': catch, rethrow, finally
               /\ switching' = [switching EXCEPT ![k] = [IdleSwitch EXCEPT !.last = "notFound"]]
               /\ isProcessingSwitches' = FALSE
          ELSE /\ switching' = [switching EXCEPT ![k].pc = "save"]
               /\ UNCHANGED isProcessingSwitches
       /\ UNCHANGED <<characters, activeCharacterId, characterCache, lastAccessTimes, memoryUsageBytes,
                      maxCachedCharacters, maxMemoryBytes, now, cLast, flushing>>

\* switchCharacter: the state of the old character is saved
SwitchSave(k) ==
    LET w == switching[k]
        c == CacheState
        saved == IF w.oldCharacterId # NoChar /\ w.oldCharacterId # w.characterId
                 THEN saveCharacterState(c, w.oldCharacterId) ELSE c
    IN /\ w.pc = "save"
       /\ SetCache(saved)
       /\ cLast' = CResult("cacheCharacter", c, saved)
       /\ switching' = [switching EXCEPT ![k].pc = "load"]
       /\ UNCHANGED <<maxCachedCharacters, maxMemoryBytes, now, isProcessingSwitches, flushing>>

\* switchCharacter: loadCharacterState, the new active character, finally
SwitchLoad(k) ==
    LET w == switching[k]
        c == CacheState
        loaded == loadCharacterState(c, w.characterId, now)
        switched == [loaded EXCEPT !.active = w.characterId,
                                   !.times = TimesSet(loaded.times, w.characterId, now)]
    IN /\ w.pc = "load"
       /\ SetCache(switched)
       /\ cLast' = CResult("cacheCharacter", c, switched)
       /\ switching' = [switching EXCEPT ![k] = [IdleSwitch EXCEPT !.last = "success"]]
       /\ isProcessingSwitches' = FALSE
       /\ UNCHANGED <<maxCachedCharacters, maxMemoryBytes, now, flushing>>

\* what sLast holds: the call, whether every write underneath it was saved,
\* and the value the storage manager returned for the last one
SResult(op, written, returned) == [op |-> op, written |-> written, returned |-> returned]
\* a characters record that holds no character
NoRecord == [c \in Chars |-> NoMap]

\* ---- the write path of the storage manager. st is the storage manager's
\* state: main for window.extensionSettings, persisted, fallback.
StorageState == [main |-> characters, persisted |-> persisted, fallback |-> fallbackStorage]

\* performWrite, with storage that validated at initialize: the record is
\* assigned to window.extensionSettings, then window.saveSettings() is awaited;
\* saved is whether that promise fulfils
performWrite(st, record, saved) ==
    IF saved
    THEN [st |-> [st EXCEPT !.main = record, !.persisted = record], returned |-> TRUE]
    ELSE \* the catch: handleError, the record kept in fallbackStorage
         [st |-> [st EXCEPT !.main = record, !.fallback = record], returned |-> FALSE]

\* what the caller of saveToStorage gets: queueWrite resolves with true once
\* performWrite has returned, whatever it returned; without the queue the
\* value of performWrite itself
saveReturns(auto, written) == IF auto THEN TRUE ELSE written

\* saveToStorage('characters', record)
saveToStorage(st, record, saved, auto) ==
    LET w == performWrite(st, record, saved)
    IN [st |-> w.st, written |-> w.returned, returned |-> saveReturns(auto, w.returned)]

SetStorage(st) ==
    /\ characters' = st.main
    /\ persisted' = st.persisted
    /\ fallbackStorage' = st.fallback

\* saveBodyMap(id, map), called on the storage manager
SaveBodyMap(id, map, saved) ==
    LET st == StorageState
        w == saveToStorage(st, saveBodyMap(st.main, id, map), saved, autoSave)
    IN /\ SetStorage(w.st)
       /\ sLast' = SResult("saveBodyMap", w.written, w.returned)
       /\ UNCHANGED <<autoSave, queueVars, storedHistory>>

\* the writes of a reverseSwap as the storage manager sees them: the source
\* map, then the target map
ReverseWrites(swapId, io) ==
    IF isReady /\ reversible(swapId) /\ io # "unavailable"
    THEN LET first == saveToStorage(StorageState,
                                    saveBodyMap(characters, swapRecords[swapId].sourceCharId,
                                                characters'[swapRecords[swapId].sourceCharId]),
                                    io # "sourceWriteFails", autoSave)
             second == saveToStorage(first.st, characters', io # "targetWriteFails", autoSave)
         IN /\ persisted' = second.st.persisted
            /\ fallbackStorage' = second.st.fallback
            /\ sLast' = SResult("reverseSwap", first.written /\ second.written, second.returned)
            /\ UNCHANGED <<autoSave, queueVars, storedHistory>>
    ELSE /\ sLast' = SResult("reverseSwap", FALSE, FALSE)
         /\ UNCHANGED <<persisted, fallbackStorage, autoSave, queueVars, storedHistory>>

\* the writes of a performSwap, all of them saved
SwapWrites ==
    /\ persisted' = characters'
    /\ sLast' = SResult("performSwap", TRUE, TRUE)
    /\ UNCHANGED <<fallbackStorage, autoSave, queueVars, storedHistory>>

\* a storage manager whose writes are not followed
\* ---- the write queue of the storage manager
\* a queued write: its data, and its ticket, the number of the queueWrite
\* call that pushed it
Write(ticket, data) == [ticket |-> ticket, data |-> data]

\* processWriteQueue: const write = this.writeQueue.shift()
shiftWrite(q) == [write |-> Head(q), rest |-> Tail(q)]

queueAlwaysStarts(processing) == TRUE

\* queueWrite: whether it calls processWriteQueue, which returns at once when
\* the queue is being processed
queueStarts(processing) == ~processing

\* the loop of processWriteQueue at its condition, up to the await of the next
\* performWrite or to its end: q is this.writeQueue, main is
\* window.extensionSettings; performWrite assigns the data before it awaits
\* window.saveSettings()
processLoop(q, main) ==
    IF q = <<>>
    THEN [queue |-> q, processing |-> FALSE, started |-> <<>>, main |-> main]
    ELSE LET s == shiftWrite(q)
         IN [queue |-> s.rest, processing |-> TRUE, started |-> <<s.write>>, main |-> s.write.data]

\* the tickets of a sequence of writes
Tickets(q) == [k \in 1..Len(q) |-> q[k].ticket]

\* saveToStorage('characters', data) with autoSave: queueWrite, and
\* processWriteQueue up to its first await if queueWrite calls it
QueueWrite(data) ==
    /\ qLast.queued < MaxQueued
    /\ LET ticket == qLast.queued + 1
           pushed == Append(writeQueue, Write(ticket, data))
       IN IF queueStarts(isProcessingQueue)
          THEN LET l == processLoop(pushed, characters)
               IN /\ writeQueue' = l.queue
                  /\ isProcessingQueue' = l.processing
                  /\ performing' = performing \o l.started
                  /\ characters' = l.main
                  /\ qLast' = [qLast EXCEPT !.queued = ticket,
                                            !.performed = @ \o Tickets(l.started)]
          ELSE /\ writeQueue' = pushed
               /\ qLast' = [qLast EXCEPT !.queued = ticket, !.behind = @ \cup {ticket}]
               /\ UNCHANGED <<isProcessingQueue, performing, characters>>
    /\ UNCHANGED <<persisted, fallbackStorage, autoSave, sLast, stopping, storedHistory>>

\* window.saveSettings() of the performWrite in progress settles: performWrite
\* returns, processWriteQueue resolves the promise of the write and goes on
\* with its loop
WriteSettles(saved) ==
    /\ performing # <<>>
    /\ LET write == Head(performing)
           l == processLoop(writeQueue, characters)
       IN /\ IF saved
             THEN persisted' = write.data /\ UNCHANGED fallbackStorage
             ELSE fallbackStorage' = write.data /\ UNCHANGED persisted
          /\ writeQueue' = l.queue
          /\ isProcessingQueue' = l.processing
          /\ performing' = Tail(performing) \o l.started
          /\ characters' = l.main
          /\ qLast' = [qLast EXCEPT !.settled = @ \cup {write.ticket},
                                    !.performed = @ \o Tickets(l.started)]
          /\ sLast' = SResult("saveToStorage", saved, TRUE)
    /\ UNCHANGED <<autoSave, stopping, storedHistory>>

\* shutdown() of the storage manager up to the await of window.saveSettings()
\* in saveAllPendingData: processWriteQueue returns at once both times (the
\* queue is empty or is being processed), and the records of fallbackStorage
\* are assigned to window.extensionSettings. A shutdown that runs as a cleanup
\* task of the shutdown before it starts the same way.
ShutdownBegin ==
    /\ stopping \in {"idle", "cleanup"}
    /\ stopping' = "saving"
    /\ characters' = IF fallbackStorage # NoRecord THEN fallbackStorage ELSE characters
    /\ UNCHANGED <<persisted, fallbackStorage, autoSave, sLast, writeQueue, isProcessingQueue,
                   performing, qLast, storedHistory>>

\* shutdown() after saveAllPendingData: fallbackStorage.clear(),
\* this.writeQueue = [], and super.shutdown(), which runs the cleanup tasks;
\* initialize() has added () => this.shutdown() to them. If
\* window.saveSettings() rejects, shutdown() rejects with it.
ShutdownClear(saved) ==
    /\ stopping = "saving"
    /\ IF saved
       THEN /\ persisted' = characters
            /\ fallbackStorage' = NoRecord
            /\ writeQueue' = <<>>
            /\ stopping' = "cleanup"
       ELSE /\ stopping' = "idle"
            /\ UNCHANGED <<persisted, fallbackStorage, writeQueue>>
    /\ UNCHANGED <<characters, autoSave, sLast, isProcessingQueue, performing, qLast, storedHistory>>

\* what qLast holds: how many writes were queued, the tickets of the writes
\* performWrite was called for, in the order of the calls, the tickets whose
\* promise is settled, and the tickets queued while the queue was processed
NoWrites == [queued |-> 0, performed |-> <<>>, settled |-> {}, behind |-> {}]

\* the write queue of a storage manager that has written nothing yet
InitQueueIdle ==
    /\ writeQueue = <<>>
    /\ isProcessingQueue = FALSE
    /\ performing = <<>>
    /\ stopping = "idle"
    /\ qLast = NoWrites
    /\ storedHistory = JsUndefined

InitStorageIdle ==
    /\ persisted = characters
    /\ fallbackStorage = NoRecord
    /\ autoSave = TRUE
    /\ sLast = SResult("none", TRUE, TRUE)
    /\ InitQueueIdle

\* a handler that is constructed and not used
InitCacheIdle ==
    /\ activeCharacterId = NoChar
    /\ characterCache = <<>>
    /\ lastAccessTimes = <<>>
    /\ memoryUsageBytes = 0
    /\ maxCachedCharacters = MaxCacheConfig
    /\ maxMemoryBytes = MaxMemoryConfig
    /\ now = 0
    /\ cLast = "none"
    /\ isProcessingSwitches = FALSE
    /\ switching = NoSwitches
    /\ flushing = <<>>

\* ---- the calls the History Stack receives
RecordInputs ==
    { <<"swap", ObjData(NoSwap)>>, <<"manual", StrData>>, <<"manual", NoData>>, <<"bogus", ObjData(NoSwap)>> }
\* Imported entries come from an earlier export: one older than every entry
\* recorded here, one newer, and one that fails validateHistoryEntry.
ImportEntries ==
    { createHistoryEntry("import", ObjData(NoSwap), 0),
      createHistoryEntry("import", ObjData(NoSwap), MaxClock + 1),
      createHistoryEntry("import", NoData, 1) }
ImportLists ==
    {<<>>} \cup { <<e>> : e \in ImportEntries }
           \cup { <<p[1], p[2]>> : p \in { q \in ImportEntries \X ImportEntries : q[1] # q[2] } }
ImportInputs ==
    { [wellFormed |-> FALSE, history |-> <<>>] }
        \cup { [wellFormed |-> TRUE, history |-> q] : q \in ImportLists }
ConfigKeys == {"performance.maxHistoryEntries", "performance.autoSave"}

InitStore == characters \in InitialStores
\* a History Stack on its own: one store, an engine that is never called
InitIdle ==
    /\ characters = [c \in Chars |-> NoMap]
    /\ InitEngine
    /\ settings.allowPartialTransformations
InitTracker ==
    /\ history = <<>>
    /\ currentIndex = -1
    /\ maxHistorySize \in 1..MaxHistoryConfig
    /\ clock = 0
    /\ hLast = HResult("none", FALSE, NoEntry, NoSnap)
    /\ undoing = NoUndoing

InitHistory == InitIdle /\ InitTracker /\ InitCacheIdle /\ InitStorageIdle

NextHistory ==
    \/ \E in \in RecordInputs : RecordTransformation(in[1], in[2]) /\ UNCHANGED <<storeVars, engineVars, cacheVars, storageVars>>
    \/ Undo /\ UNCHANGED <<storeVars, engineVars, cacheVars, storageVars>>
    \/ Redo /\ UNCHANGED <<storeVars, engineVars, cacheVars, storageVars>>
    \/ \E confirm \in BOOLEAN : ClearHistory(confirm) /\ UNCHANGED <<storeVars, engineVars, cacheVars, storageVars>>
    \/ \E importData \in ImportInputs, merge \in BOOLEAN : ImportHistory(importData, merge) /\ UNCHANGED <<storeVars, engineVars, cacheVars, storageVars>>
    \/ PerformCleanup /\ UNCHANGED <<storeVars, engineVars, cacheVars, storageVars>>
    \/ \E key \in ConfigKeys, value \in 0..MaxHistoryConfig : ConfigChanged(key, value) /\ UNCHANGED <<storeVars, engineVars, cacheVars, storageVars>>

SpecHistory == InitHistory /\ [][NextHistory]_vars

\* ---- the History Stack with suspended calls: entries are recorded while no
\* undo is suspended, and two callers undo
NextUndoing ==
    \/ \E in \in RecordInputs :
          undoing = NoUndoing /\ RecordTransformation(in[1], in[2]) /\ UNCHANGED <<storeVars, engineVars, cacheVars, storageVars>>
    \/ \E k \in Callers : BeginUndo(k) /\ UNCHANGED <<storeVars, engineVars, cacheVars, storageVars>>
    \/ \E k \in Callers : FinishUndo(k) /\ UNCHANGED <<storeVars, engineVars, cacheVars, storageVars>>

SpecUndoing == InitHistory /\ [][NextUndoing]_vars

\* ---- the History Stack with its persistence: entries are recorded and
\* undone, the log is saved, and a new History Stack is initialized
NextPersist ==
    \/ \E in \in RecordInputs : RecordTransformation(in[1], in[2]) /\ UNCHANGED <<storeVars, engineVars, cacheVars>> /\ UNCHANGED storageVars
    \/ Undo /\ UNCHANGED <<storeVars, engineVars, cacheVars>> /\ UNCHANGED storageVars
    \/ TrackerSaveToStorage /\ UNCHANGED <<storeVars, engineVars, cacheVars>> /\ UNCHANGED <<persisted, fallbackStorage, autoSave, sLast, queueVars>>
    \/ LoadHistoryFromStorage /\ UNCHANGED <<storeVars, engineVars, cacheVars>> /\ UNCHANGED storageVars

SpecPersist == InitHistory /\ [][NextPersist]_vars

\* ---- the engine and the store, the History Stack idle
InitSwap ==
    /\ InitStore
    /\ InitEngine
    /\ InitTracker /\ maxHistorySize = MaxHistoryConfig
    /\ InitCacheIdle
    /\ InitStorageIdle

NextSwap ==
    \/ \E a \in Chars, b \in Chars, zones \in ZoneLists, valid \in BOOLEAN, reciprocal \in ReciprocalOutcomes :
          PerformSwap(a, b, zones, valid, reciprocal) /\ UNCHANGED <<trackerVars, cacheVars, storageVars>>
    \/ \E swapId \in 1..MaxSwapCalls : ReverseSwap(swapId, "ok") /\ UNCHANGED <<trackerVars, cacheVars, storageVars>>

SpecSwap == InitSwap /\ [][NextSwap]_vars

\* ---- the engine and the History Stack side by side: swaps between the two
\* stored characters, each completed swap recorded as a swap entry, undo, redo
InitUndo ==
    /\ characters = [c \in Chars |->
                        IF c = "c1" THEN [chest |-> "flat", waist |-> "slim"]
                        ELSE IF c = "c2" THEN [chest |-> "large", waist |-> "wide"]
                        ELSE NoMap]
    /\ InitEngine
    /\ settings.allowPartialTransformations
    /\ InitTracker /\ maxHistorySize = MaxHistoryConfig
    /\ InitCacheIdle
    /\ InitStorageIdle

\* a call into the engine ends the undo/redo pair hLast follows
EngineCall ==
    /\ hLast' = [hLast EXCEPT !.snap = NoSnap]
    /\ UNCHANGED <<history, currentIndex, maxHistorySize, clock, undoing, cacheVars, storageVars>>

StoredPairs == { <<"c1", "c2">>, <<"c2", "c1">> }

NextUndo ==
    \/ \E pair \in StoredPairs, zones \in ZoneLists \ {<<>>} :
          PerformSwap(pair[1], pair[2], zones, TRUE, "ok") /\ EngineCall
    \/ \E swapId \in 1..MaxSwapCalls : ReverseSwap(swapId, "ok") /\ EngineCall
    \/ \E swapId \in DOMAIN swapRecords :
          RecordTransformation("swap", ObjData(swapId)) /\ UNCHANGED <<storeVars, engineVars, cacheVars, storageVars>>
    \/ Undo /\ UNCHANGED <<storeVars, engineVars, cacheVars, storageVars>>
    \/ Redo /\ UNCHANGED <<storeVars, engineVars, cacheVars, storageVars>>

SpecUndo == InitUndo /\ [][NextUndo]_vars

\* ---- the engine with suspended calls: two callers, each with at most one
\* performSwap in flight, and a task that deletes stored body maps
FlightPairs == StoredPairs \cup { <<"c1", "c1">> }
FlightZoneLists == { <<"chest">>, <<"chest", "waist">> }

NextFlight ==
    \/ \E k \in Callers, pair \in FlightPairs, zones \in FlightZoneLists, valid \in BOOLEAN :
          BeginSwap(k, pair[1], pair[2], zones, valid) /\ UNCHANGED <<trackerVars, cacheVars, storageVars>>
    \/ \E k \in Callers : ZoneLoad(k) /\ UNCHANGED <<trackerVars, cacheVars, storageVars>>
    \/ \E k \in Callers : SaveSource(k) /\ UNCHANGED <<trackerVars, cacheVars, storageVars>>
    \/ \E k \in Callers : SaveTarget(k) /\ UNCHANGED <<trackerVars, cacheVars, storageVars>>
    \* this.reciprocalSwapHandler is not set: handleReciprocal is not called
    \/ \E k \in Callers : FinishSwap(k, "ok") /\ UNCHANGED <<trackerVars, cacheVars, storageVars>>
    \/ \E id \in Chars : DeleteBodyMap(id) /\ UNCHANGED <<trackerVars, cacheVars, storageVars>>

SpecFlight == InitUndo /\ [][NextFlight]_vars

\* ---- the engine with suspended reverseSwap calls: swaps are made while no
\* call is suspended, and two callers reverse
NextReverse ==
    \/ \E pair \in StoredPairs, zones \in FlightZoneLists :
          /\ flights = NoFlights
          /\ PerformSwap(pair[1], pair[2], zones, TRUE, "ok")
          /\ UNCHANGED <<trackerVars, cacheVars, storageVars>>
    \/ \E k \in Callers, swapId \in 1..MaxSwapCalls :
          BeginReverse(k, swapId) /\ UNCHANGED <<trackerVars, cacheVars, storageVars>>
    \/ \E k \in Callers : RestoreLoad(k) /\ UNCHANGED <<trackerVars, cacheVars, storageVars>>
    \/ \E k \in Callers : RestoreSource(k) /\ UNCHANGED <<trackerVars, cacheVars, storageVars>>
    \/ \E k \in Callers : FinishReverse(k) /\ UNCHANGED <<trackerVars, cacheVars, storageVars>>

SpecReverse == InitUndo /\ [][NextReverse]_vars

\* ---- the engine with swaps among three stored characters whose zones all
\* hold a value: one call at a time, each swap run to its end, and reversals
\* of the swaps in any order
ThreeStored ==
    [c \in Chars |->
        IF c = "c1" THEN [chest |-> "flat", waist |-> "slim"]
        ELSE IF c = "c2" THEN [chest |-> "large", waist |-> "wide"]
        ELSE [chest |-> "wide", waist |-> "flat"]]
ThreePairs == { <<"c1", "c2">>, <<"c1", "c3">>, <<"c2", "c3">> }

InitThree ==
    /\ characters = ThreeStored
    /\ InitEngine
    /\ settings.allowPartialTransformations
    /\ InitTracker /\ maxHistorySize = MaxHistoryConfig
    /\ InitCacheIdle
    /\ InitStorageIdle

NextThree ==
    \/ \E k \in Callers, pair \in ThreePairs, zones \in FlightZoneLists :
          /\ flights = NoFlights
          /\ BeginSwap(k, pair[1], pair[2], zones, TRUE)
          /\ UNCHANGED <<trackerVars, cacheVars, storageVars>>
    \/ \E k \in Callers : ZoneLoad(k) /\ UNCHANGED <<trackerVars, cacheVars, storageVars>>
    \/ \E k \in Callers : SaveSource(k) /\ UNCHANGED <<trackerVars, cacheVars, storageVars>>
    \/ \E k \in Callers : SaveTarget(k) /\ UNCHANGED <<trackerVars, cacheVars, storageVars>>
    \/ \E k \in Callers : FinishSwap(k, "ok") /\ UNCHANGED <<trackerVars, cacheVars, storageVars>>
    \/ \E swapId \in 1..MaxFlightCalls :
          /\ flights = NoFlights
          /\ ReverseSwap(swapId, "ok")
          /\ UNCHANGED <<trackerVars, cacheVars, storageVars>>

SpecThree == InitThree /\ [][NextThree]_vars

\* ---- the engine with its life cycle: errors are handled, the module is
\* initialized again and enabled
NextLifecycle ==
    \/ \E pair \in StoredPairs, zones \in FlightZoneLists :
          PerformSwap(pair[1], pair[2], zones, TRUE, "ok") /\ UNCHANGED <<trackerVars, cacheVars, storageVars>>
    \/ \E swapId \in 1..MaxSwapCalls :
          ReverseSwap(swapId, "ok") /\ UNCHANGED <<trackerVars, cacheVars, storageVars>>
    \/ \E isCritical \in BOOLEAN : HandleError(isCritical) /\ UNCHANGED <<trackerVars, cacheVars, storageVars>>
    \/ \E dependencies \in BOOLEAN : Initialize(dependencies) /\ UNCHANGED <<trackerVars, cacheVars, storageVars>>
    \/ Enable /\ UNCHANGED <<trackerVars, cacheVars, storageVars>>

SpecLifecycle == InitUndo /\ [][NextLifecycle]_vars

\* ---- the engine on a storage manager whose writes can fail
IoOutcomes == {"ok", "unavailable", "sourceWriteFails", "targetWriteFails"}
\* the direct saves: a body map for a character of the swaps and for the
\* character that is not stored yet
SavedIds == {"c1", "c3"}
SavedMaps == { [chest |-> "flat", waist |-> Undefined] }

InitStorage ==
    /\ characters = [c \in Chars |->
                        IF c = "c1" THEN [chest |-> "flat", waist |-> "slim"]
                        ELSE IF c = "c2" THEN [chest |-> "large", waist |-> "wide"]
                        ELSE NoMap]
    /\ InitEngine
    /\ settings.allowPartialTransformations
    /\ InitTracker /\ maxHistorySize = MaxHistoryConfig
    /\ InitCacheIdle
    /\ persisted = characters
    /\ fallbackStorage = NoRecord
    /\ autoSave \in BOOLEAN
    /\ sLast = SResult("none", TRUE, TRUE)
    /\ InitQueueIdle

NextStorage ==
    \/ \E pair \in StoredPairs, zones \in FlightZoneLists :
          PerformSwap(pair[1], pair[2], zones, TRUE, "ok") /\ SwapWrites /\ UNCHANGED <<trackerVars, cacheVars>>
    \/ \E swapId \in 1..MaxSwapCalls, io \in IoOutcomes :
          ReverseSwap(swapId, io) /\ ReverseWrites(swapId, io) /\ UNCHANGED <<trackerVars, cacheVars>>
    \/ \E id \in SavedIds, map \in SavedMaps, saved \in BOOLEAN :
          SaveBodyMap(id, map, saved) /\ UNCHANGED <<engineVars, trackerVars, cacheVars>>

SpecStorage == InitStorage /\ [][NextStorage]_vars

\* ---- the storage manager with its write queue: records are saved with
\* autoSave while earlier writes are in progress, and the manager is shut down
QueuedRecords == { saveBodyMap(NoRecord, id, map) : id \in SavedIds, map \in SavedMaps }

InitQueue ==
    /\ InitStorage
    /\ autoSave = TRUE

NextQueue ==
    \/ \E data \in QueuedRecords : QueueWrite(data) /\ UNCHANGED <<engineVars, trackerVars, cacheVars>>
    \/ \E saved \in BOOLEAN : WriteSettles(saved) /\ UNCHANGED <<engineVars, trackerVars, cacheVars>>
    \/ ShutdownBegin /\ UNCHANGED <<engineVars, trackerVars, cacheVars>>
    \/ \E saved \in BOOLEAN : ShutdownClear(saved) /\ UNCHANGED <<engineVars, trackerVars, cacheVars>>

SpecQueue == InitQueue /\ [][NextQueue]_vars

\* ---- saveBodyMap in its steps, as applyZoneSwap awaits it for a performSwap
\* in flight: the pc of the flight is "saveSource" or "saveTarget" when the
\* save is called
SavedId(f) == IF f.pc \in {"saveSource", "writeSource"} THEN f.sourceCharId ELSE f.targetCharId
SavedMap(f) == IF f.pc \in {"saveSource", "writeSource"} THEN f.updatedSourceMap ELSE f.updatedTargetMap

\* saveBodyMap up to its await of loadFromStorage('characters', {}): the
\* record is read. The callers that have read before and not gone on yet go
\* on before this one.
SaveRead(k) ==
    LET f == flights[k]
    IN /\ f.pc \in {"saveSource", "saveTarget"}
       /\ flights' = [flights EXCEPT
              ![k].pc = IF f.pc = "saveSource" THEN "writeSource" ELSE "writeTarget",
              ![k].record = characters,
              ![k].behind = { j \in Callers \ {k} : flights[j].pc \in {"writeSource", "writeTarget"} }]
       /\ UNCHANGED <<characters, initialized, enabled, settings, swapRecords, activeSwaps, swapHistory,
                      swapCounter, stats, eLast, preSwap>>
       /\ UNCHANGED storageVars

\* saveBodyMap after the await: characters[id] is set in the record that was
\* read, and the record is handed to saveToStorage
SaveWrite(k) ==
    LET f == flights[k]
    IN /\ f.pc \in {"writeSource", "writeTarget"}
       /\ f.behind = {}
       /\ flights' = [j \in Callers |->
              IF j = k
              THEN [f EXCEPT !.pc = IF f.pc = "writeSource" THEN "waitSource" ELSE "waitTarget",
                             !.record = <<>>,
                             !.ticket = qLast.queued + 1]
              ELSE [flights[j] EXCEPT !.behind = @ \ {k}]]
       /\ QueueWrite(saveBodyMap(f.record, SavedId(f), SavedMap(f)))
       /\ UNCHANGED <<initialized, enabled, settings, swapRecords, activeSwaps, swapHistory,
                      swapCounter, stats, eLast, preSwap>>

\* the promise of the queued write is resolved: saveBodyMap returns, and
\* applyZoneSwap goes on to its next save or returns its zone result
SaveDone(k) ==
    LET f == flights[k]
    IN /\ f.pc \in {"waitSource", "waitTarget"}
       /\ f.ticket \in qLast.settled
       /\ flights' = IF f.pc = "waitSource"
                     THEN [flights EXCEPT ![k].pc = "saveTarget", ![k].ticket = 0]
                     ELSE [flights EXCEPT ![k].pc = "zone",
                                          ![k].ticket = 0,
                                          ![k].todo = Tail(@),
                                          ![k].results = Append(@, [zone |-> Head(f.todo), success |-> TRUE]),
                                          ![k].updatedSourceMap = NoMap,
                                          ![k].updatedTargetMap = NoMap]
       /\ UNCHANGED <<characters, initialized, enabled, settings, swapRecords, activeSwaps, swapHistory,
                      swapCounter, stats, eLast, preSwap>>
       /\ UNCHANGED storageVars

\* ---- the engine over the storage manager's record: four characters are
\* stored, and two callers swap between two pairs of them
RecordChars == Chars \cup {"c4"}
FourStored ==
    [c \in RecordChars |->
        IF c = "c1" THEN [chest |-> "flat", waist |-> "slim"]
        ELSE IF c = "c2" THEN [chest |-> "large", waist |-> "wide"]
        ELSE IF c = "c3" THEN [chest |-> "wide", waist |-> "flat"]
        ELSE [chest |-> "slim", waist |-> "large"]]
RecordPairs == { <<"c1", "c2">>, <<"c3", "c4">> }

InitRecord ==
    /\ characters = FourStored
    /\ InitEngine
    /\ settings.allowPartialTransformations
    /\ InitTracker /\ maxHistorySize = MaxHistoryConfig
    /\ InitCacheIdle
    /\ InitStorageIdle

NextRecord ==
    \/ \E k \in Callers, pair \in RecordPairs :
          BeginSwap(k, pair[1], pair[2], <<"chest">>, TRUE) /\ UNCHANGED <<trackerVars, cacheVars, storageVars>>
    \/ \E k \in Callers : ZoneLoad(k) /\ UNCHANGED <<trackerVars, cacheVars, storageVars>>
    \/ \E k \in Callers : SaveRead(k) /\ UNCHANGED <<trackerVars, cacheVars>>
    \/ \E k \in Callers : SaveWrite(k) /\ UNCHANGED <<trackerVars, cacheVars>>
    \/ WriteSettles(TRUE) /\ UNCHANGED <<engineVars, trackerVars, cacheVars>>
    \/ \E k \in Callers : SaveDone(k) /\ UNCHANGED <<trackerVars, cacheVars>>
    \/ \E k \in Callers : FinishSwap(k, "ok") /\ UNCHANGED <<trackerVars, cacheVars, storageVars>>

SpecRecord == InitRecord /\ [][NextRecord]_vars

\* ---- the multi-character handler after initialize(): two characters are
\* stored, and the default character is loaded, cached and made active
InitCache ==
    /\ maxCachedCharacters \in 1..MaxCacheConfig
    /\ maxMemoryBytes = MaxMemoryConfig
    /\ LET store == [c \in Chars |->
                        IF c = "c1" THEN [chest |-> "flat", waist |-> "slim"]
                        ELSE IF c = "c2" THEN [chest |-> Undefined, waist |-> "wide"]
                        ELSE NoMap]
           blank == [active |-> NoChar, cache |-> <<>>, times |-> <<>>, mem |-> 0, store |-> store]
           \* ensureDefaultCharacter
           ensured == IF characterExists(blank, defaultCharacterId) THEN blank
                      ELSE createCharacter(blank, defaultCharacterId, 0)
           loaded == loadCharacterState(ensured, defaultCharacterId, 0)
       IN /\ characters = loaded.store
          /\ activeCharacterId = defaultCharacterId
          /\ characterCache = loaded.cache
          /\ lastAccessTimes = TimesSet(loaded.times, defaultCharacterId, 0)
          /\ memoryUsageBytes = loaded.mem
    /\ now = 0
    /\ cLast = "none"
    /\ isProcessingSwitches = FALSE
    /\ switching = NoSwitches
    /\ flushing = <<>>
    /\ InitEngine /\ settings.allowPartialTransformations
    /\ InitTracker /\ maxHistorySize = MaxHistoryConfig
    /\ InitStorageIdle

NextCache ==
    \/ \E id \in Chars, createIfMissing \in BOOLEAN :
          SwitchCharacter(id, createIfMissing) /\ UNCHANGED <<engineVars, trackerVars, storageVars>>
    \/ \E id \in Chars : CreateCharacter(id) /\ UNCHANGED <<engineVars, trackerVars, storageVars>>
    \/ \E id \in Chars : DeleteCharacter(id) /\ UNCHANGED <<engineVars, trackerVars, storageVars>>
    \/ \E id \in Chars : LoadCharacterState(id) /\ UNCHANGED <<engineVars, trackerVars, storageVars>>
    \/ \E requiredBytes \in {0, MaxMemoryConfig} : EvictCharacters(requiredBytes) /\ UNCHANGED <<engineVars, trackerVars, storageVars>>
    \/ CleanupInactiveCharacters /\ UNCHANGED <<engineVars, trackerVars, storageVars>>
    \/ Tick /\ UNCHANGED <<engineVars, trackerVars, storageVars>>

SpecCache == InitCache /\ [][NextCache]_vars

\* ---- the multi-character handler with flushes in flight: the passes called
\* from outside leave their flushes in flight, an eviction made inside
\* cacheCharacter for an insertion has its flush settled at once
InitFlush ==
    /\ InitCache
    /\ maxCachedCharacters = MaxCacheConfig

NextFlush ==
    \/ \E id \in Chars : LoadCharacterState(id) /\ UNCHANGED <<engineVars, trackerVars, storageVars>>
    \/ \E id \in Chars : SwitchCharacter(id, FALSE) /\ UNCHANGED <<engineVars, trackerVars, storageVars>>
    \/ \E requiredBytes \in {0, MaxMemoryConfig} : EvictPass(requiredBytes) /\ UNCHANGED <<engineVars, trackerVars, storageVars>>
    \/ CleanupPass /\ UNCHANGED <<engineVars, trackerVars, storageVars>>
    \/ \E k \in 1..MaxFlushes, saved \in BOOLEAN : FlushSettles(k, saved) /\ UNCHANGED <<engineVars, trackerVars, storageVars>>
    \/ Shutdown /\ UNCHANGED <<engineVars, trackerVars, storageVars>>
    \/ Tick /\ UNCHANGED <<engineVars, trackerVars, storageVars>>

SpecFlush == InitFlush /\ [][NextFlush]_vars

\* ---- the multi-character handler with suspended switchCharacter calls: two
\* callers, none of them passing options.force
NextSwitch ==
    \/ \E k \in Callers, id \in Chars, createIfMissing \in BOOLEAN :
          BeginSwitch(k, id, createIfMissing, FALSE) /\ UNCHANGED <<engineVars, trackerVars, storageVars>>
    \/ \E k \in Callers : SwitchExists(k) /\ UNCHANGED <<engineVars, trackerVars, storageVars>>
    \/ \E k \in Callers : SwitchSave(k) /\ UNCHANGED <<engineVars, trackerVars, storageVars>>
    \/ \E k \in Callers : SwitchLoad(k) /\ UNCHANGED <<engineVars, trackerVars, storageVars>>
    \/ Tick /\ UNCHANGED <<engineVars, trackerVars, storageVars>>

SpecSwitch == InitCache /\ [][NextSwitch]_vars

(***************************************************************************)
(* The Swap Coordinator's properties                                       *)
(***************************************************************************)

\* C1: after a performSwap(a, b, zones) with a # b that reports success, for
\* every zone of the list a holds what b held before the call and b holds
\* what a held before the call.
C1_SwapExchangesZones ==
    (eLast.op = "performSwap" /\ eLast.outcome = "success" /\ eLast.sourceCharId # eLast.targetCharId)
        => \A z \in Range(eLast.zones) :
              /\ ZoneOf(characters, eLast.sourceCharId, z) = ZoneOf(preSwap.store, eLast.targetCharId, z)
              /\ ZoneOf(characters, eLast.targetCharId, z) = ZoneOf(preSwap.store, eLast.sourceCharId, z)

\* C2: a reverseSwap that directly follows the successful performSwap it
\* reverses leaves every zone of both characters as it was before the swap,
\* also when a zone was missing or empty on one side.
C2_ReverseRestoresBoth ==
    (eLast.op = "reverseSwap" /\ eLast.outcome = "success" /\ preSwap.taken)
        => \A z \in Zones :
              /\ ZoneOf(characters, eLast.sourceCharId, z) = ZoneOf(preSwap.store, eLast.sourceCharId, z)
              /\ ZoneOf(characters, eLast.targetCharId, z) = ZoneOf(preSwap.store, eLast.targetCharId, z)

(***************************************************************************)
(* The History Stack's properties                                          *)
(***************************************************************************)

\* C3: after every completed History Stack operation the current index is
\* at least -1 and at most history.length - 1.
C3_IndexInRange ==
    /\ currentIndex >= -1
    /\ currentIndex <= Len(history) - 1

\* C4: recording while the index is before the tail discards exactly the
\* entries after the index, keeps entries 0..index as they were, appends the
\* new entry as the last element and moves the index to it.
C4_RecordTruncatesForward ==
    [][ (hLast'.op = "record" /\ hLast'.success /\ currentIndex < Len(history) - 1)
            => /\ history' = Append(SubSeq(history, 1, currentIndex + 1), hLast'.entry)
               /\ currentIndex' = Len(history') - 1 ]_vars

\* a recording that cut off the redo branch: [A, B, C] at B, then D, is
\* [A, B, D] at D
C4_Witness ==
    /\ hLast.op = "record" /\ hLast.success /\ hLast.cut = 1
    /\ Len(history) = 3
    /\ history[3] = hLast.entry
    /\ currentIndex = 2

\* C5: capacity trimming (after a recording, or when the config-changed
\* listener lowers maxHistorySize) leaves at most maxHistorySize entries,
\* drops exactly the k oldest, and lowers the index by exactly k, but not
\* below -1.
C5_TrimDropsOldestFloorMinusOne ==
    [][ /\ (hLast'.op = "config" /\ hLast'.success)
            => LET k == Max(0, Len(history) - maxHistorySize')
               IN /\ Len(history') <= maxHistorySize'
                  /\ history' = SubSeq(history, k + 1, Len(history))
                  /\ currentIndex' = Max(-1, currentIndex - k)
        /\ (hLast'.op = "record" /\ hLast'.success)
            => LET kept == SubSeq(history, 1, Min(Len(history), currentIndex + 1))
                   pushed == Append(kept, hLast'.entry)
                   k == Max(0, Len(pushed) - maxHistorySize)
               IN /\ Len(history') <= maxHistorySize
                  /\ history' = SubSeq(pushed, k + 1, Len(pushed))
                  /\ currentIndex' = Max(-1, (Len(pushed) - 1) - k) ]_vars

\* C6: undo() lowers the index by exactly one when it reports success; when
\* there is nothing to undo, or the inverse operation fails, it reports
\* failure and leaves the index and the log as they were.
C6_UndoMovesIndexOnlyOnSuccess ==
    [][ hLast'.op = "undo"
            => /\ ~(currentIndex >= 0 /\ Len(history) > 0) => ~hLast'.success
               /\ hLast'.success => (currentIndex' = currentIndex - 1 /\ history' = history)
               /\ ~hLast'.success => (currentIndex' = currentIndex /\ history' = history) ]_vars

\* a successful undo of the entry the index was at
C6_Witness ==
    /\ hLast.op = "undo" /\ hLast.success /\ hLast.snap.taken
    /\ hLast.entry = hLast.snap.history[hLast.snap.currentIndex + 1]
    /\ currentIndex = hLast.snap.currentIndex - 1

\* C7: redo() raises the index by exactly one when it reports success; when
\* there is nothing to redo, or the re-application fails, it reports failure
\* and the index is what it was before the call.
C7_RedoMovesIndexOnlyOnSuccess ==
    [][ hLast'.op = "redo"
            => /\ ~(currentIndex < Len(history) - 1) => ~hLast'.success
               /\ hLast'.success => (currentIndex' = currentIndex + 1 /\ history' = history)
               /\ ~hLast'.success => currentIndex' = currentIndex ]_vars

\* a successful redo: the index is at the entry that was re-applied
C7_Witness ==
    /\ hLast.op = "redo" /\ hLast.success
    /\ currentIndex >= 1
    /\ hLast.entry = history[currentIndex + 1]

\* C8: a successful undo directly followed by a successful redo leaves the
\* log, the current index and every character's zone values as they were
\* before the undo.
C8_UndoThenRedoIsIdentity ==
    (hLast.op = "redo" /\ hLast.success /\ hLast.snap.taken /\ hLast.snap.redone)
        => /\ history = hLast.snap.history
           /\ currentIndex = hLast.snap.currentIndex
           /\ characters = hLast.snap.characters
\* an undo and redo of the entry of a swap that is still applied
C8_Witness ==
    /\ hLast.op = "redo" /\ hLast.success /\ hLast.snap.taken /\ hLast.snap.redone
    /\ hLast.entry.type = "swap"
    /\ hLast.entry.data.swapId \in activeSwaps
    /\ characters # preSwap.store

\* C9: after a successful undo of the swap entry of the swap just performed,
\* both characters' zones hold their values from before the swap and the
\* swap's record is no longer active.
C9_UndoOfSwapReverses ==
    (/\ hLast.op = "undo" /\ hLast.success /\ hLast.entry.type = "swap"
     /\ eLast.op = "performSwap" /\ eLast.outcome = "success" /\ preSwap.taken
     /\ hLast.entry.data.swapId = eLast.swapId)
        => /\ \A z \in Zones :
                /\ ZoneOf(characters, eLast.sourceCharId, z) = ZoneOf(preSwap.store, eLast.sourceCharId, z)
                /\ ZoneOf(characters, eLast.targetCharId, z) = ZoneOf(preSwap.store, eLast.targetCharId, z)
           /\ eLast.swapId \notin activeSwaps
           /\ swapRecords[eLast.swapId].status # "active"

(***************************************************************************)
(* The Character State Cache's properties                                  *)
(***************************************************************************)

\* C10: no call that evicts characters (evictCharacters, on its own or from
\* cacheCharacter), cleans up inactive characters or deletes a character
\* removes the cache entry of the character that is active when it is made.
C10_ActiveNeverRemoved ==
    [][ (activeCharacterId # NoChar /\ activeCharacterId \in DOMAIN characterCache)
            => activeCharacterId \in DOMAIN characterCache' ]_vars
\* characters were evicted while the cache held an active character
C10_Witness ==
    /\ cLast = "evictCharacters"
    /\ activeCharacterId \in DOMAIN characterCache
    /\ Cardinality(DOMAIN characterCache) = 1

\* the bytes the cache entries of a set of characters take together
RECURSIVE AggregateSize(_, _)
AggregateSize(cache, ids) ==
    IF ids = {} THEN 0
    ELSE LET x == CHOOSE y \in ids : TRUE
         IN calculateStateSize(cache[x]) + AggregateSize(cache, ids \ {x})

LastAccess(times, id) == (CHOOSE e \in Range(times) : e.id = id).timestamp

\* C12: the eviction an insertion triggers is least-recently-used among the
\* entries that are not pinned, and removes no more than needed: no entry is
\* evicted while a non-pinned entry with an older last access stays cached,
\* and putting any evicted entry back would exceed maxCachedCharacters or the
\* memory budget (the pinned entry not counted).
C12_EvictsLruOnlyAsNeeded ==
    [][ ((DOMAIN characterCache') \ (DOMAIN characterCache) # {})
            => LET removed == (DOMAIN characterCache) \ (DOMAIN characterCache')
                   stayed == ((DOMAIN characterCache) \cap (DOMAIN characterCache')) \ {activeCharacterId}
                   all == characterCache' @@ characterCache
               IN /\ \A e \in removed, k \in stayed :
                        ~(LastAccess(lastAccessTimes, k) < LastAccess(lastAccessTimes, e))
                  /\ \A e \in removed :
                        LET back == ((DOMAIN characterCache') \cup {e}) \ {activeCharacterId}
                        IN \/ Cardinality(back) > maxCachedCharacters
                           \/ AggregateSize(all, back) > maxMemoryBytes ]_vars

\* the least-recently-used half of C12 on its own
C12_LruOrder ==
    [][ ((DOMAIN characterCache') \ (DOMAIN characterCache) # {})
            => LET removed == (DOMAIN characterCache) \ (DOMAIN characterCache')
                   stayed == ((DOMAIN characterCache) \cap (DOMAIN characterCache')) \ {activeCharacterId}
               IN \A e \in removed, k \in stayed :
                     ~(LastAccess(lastAccessTimes, k) < LastAccess(lastAccessTimes, e)) ]_vars

(***************************************************************************)
(* The Swap Coordinator's error handling                                   *)
(***************************************************************************)

\* C13: under the strict policy (validation on, allowPartialTransformations
\* off) a performSwap whose validation reports an error changes no zone
\* value, adds no swap to the active set and adds no history entry.
C13_StrictValidationAborts ==
    [][ (/\ settings.autoValidation /\ settings.validateTransformations
         /\ ~settings.allowPartialTransformations
         /\ stats'.validationErrors = stats.validationErrors + 1)
            => /\ characters' = characters
               /\ activeSwaps' = activeSwaps
               /\ swapRecords' = swapRecords
               /\ swapHistory' = swapHistory
               /\ history' = history ]_vars
\* a swap between two stored characters was refused for its validation error
C13_Witness ==
    /\ ~settings.allowPartialTransformations
    /\ stats.validationErrors = 1
    /\ eLast.op = "performSwap" /\ eLast.outcome = "null"
    /\ swapCounter = 0

\* C14: a performSwap whose source and target are the same character, or
\* whose zone list is empty, is rejected and leaves every character state,
\* the active set and the swap history as they were.
C14_BadArgumentsRejected ==
    [][ (/\ stats'.totalSwaps = stats.totalSwaps + 1
         /\ eLast'.op = "performSwap"
         /\ (eLast'.sourceCharId = eLast'.targetCharId \/ eLast'.zones = <<>>))
            => /\ eLast'.outcome = "null"
               /\ characters' = characters
               /\ activeSwaps' = activeSwaps
               /\ swapRecords' = swapRecords
               /\ swapHistory' = swapHistory ]_vars
\* a swap of a stored character with itself was refused
C14_Witness ==
    /\ eLast.op = "performSwap" /\ eLast.outcome = "null"
    /\ eLast.sourceCharId = "c1" /\ eLast.targetCharId = "c1" /\ eLast.zones # <<>>
    /\ stats.totalSwaps = 1
\* a swap with an empty zone list was refused
C14_WitnessNoZones ==
    /\ eLast.op = "performSwap" /\ eLast.outcome = "null"
    /\ eLast.sourceCharId # eLast.targetCharId /\ eLast.zones = <<>>
    /\ stats.totalSwaps = 1

\* C15: a performSwap whose source or target is not a stored character does
\* not report success, adds no swap to the active set, adds no entry to the
\* swap history and changes no character state.
C15_MissingCharacterFails ==
    [][ (/\ stats'.totalSwaps = stats.totalSwaps + 1
         /\ eLast'.op = "performSwap"
         /\ eLast'.sourceCharId \in Chars /\ eLast'.targetCharId \in Chars
         /\ (characters[eLast'.sourceCharId] = NoMap \/ characters[eLast'.targetCharId] = NoMap))
            => /\ eLast'.outcome # "success"
               /\ activeSwaps' = activeSwaps
               /\ swapHistory' = swapHistory
               /\ characters' = characters ]_vars

\* C20: a reverseSwap of a swap id that is not in the active set (never
\* created, failed, or reversed before) changes no character state, no swap
\* record and not the count of reversed swaps.
C20_ReverseOfInactiveIsNoOp ==
    [][ (eLast'.op = "reverseSwap" /\ eLast'.swapId \notin activeSwaps)
            => /\ eLast'.outcome = "null"
               /\ characters' = characters
               /\ swapRecords' = swapRecords
               /\ activeSwaps' = activeSwaps
               /\ stats'.reversedSwaps = stats.reversedSwaps ]_vars
\* a second reverseSwap of a swap that was reversed before
C20_Witness ==
    /\ eLast.op = "reverseSwap" /\ eLast.outcome = "null"
    /\ eLast.swapId \in DOMAIN swapRecords
    /\ swapRecords[eLast.swapId].status = "reversed"
    /\ stats.reversedSwaps = 1

\* the zones of a results list whose exchange succeeded, in order
ExchangedZones(results) ==
    LET done == SelectSeq(results, LAMBDA r : r.success)
    IN [i \in 1..Len(done) |-> done[i].zone]
\* a zone failed after an earlier zone of the list was exchanged
LaterZoneFailed(results) ==
    \E i \in 1..Len(results), j \in 1..Len(results) :
        i < j /\ results[i].success /\ ~results[j].success
\* the step in which the performSwap of caller k returns its result object
Returns(k) == flights[k].pc = "zone" /\ flights[k].todo = <<>> /\ flights'[k].pc = "idle"

\* C16: a performSwap in which a later zone failed after earlier zones were
\* exchanged returns success=false and lists exactly the zones exchanged
\* before the failure, and leaves the exchanged zones as they are.
C16_PartialFailureReported ==
    [][ \A k \in Callers :
            (Returns(k) /\ LaterZoneFailed(flights[k].results))
                => /\ eLast'.outcome = "failure"
                   /\ eLast'.zones = ExchangedZones(flights[k].results)
                   /\ characters' = characters ]_vars

\* caller k is between the two writes of one zone: the source holds the
\* value it received and the target still holds that same value
HalfSwapped(k) ==
    LET f == flights[k]
        zone == Head(f.todo)
    IN /\ f.pc = "saveTarget"
       /\ f.updatedSourceMap[zone] # f.updatedTargetMap[zone]
       /\ ZoneOf(characters, f.sourceCharId, zone) = f.updatedSourceMap[zone]
       /\ ZoneOf(characters, f.targetCharId, zone) # f.updatedTargetMap[zone]

\* C17: no state that another task can observe has one character holding
\* the exchanged value of a zone while the other does not hold its own yet.
C17_NoHalfSwappedZone == \A k \in Callers : ~HalfSwapped(k)

\* C18: a performSwap issued while another performSwap is in flight is
\* rejected: it starts no exchange, draws no swap id and does not succeed.
C18_SecondSwapRejected ==
    [][ (stats'.totalSwaps = stats.totalSwaps + 1 /\ InFlight # {})
            => /\ flights' = flights
               /\ swapCounter' = swapCounter
               /\ eLast'.op = "performSwap" /\ eLast'.outcome = "null" ]_vars

\* C19: with no caller using force, a switchCharacter issued while another
\* one is in flight is rejected and changes neither the active character nor
\* the in-progress flag; at most one switchCharacter body executes at a time;
\* and the in-progress flag is set exactly while a call is in flight, so it is
\* false again once the call has completed, with or without success.
C19_OneSwitchAtATime ==
    /\ [](Cardinality(Switching) <= 1)
    /\ [](isProcessingSwitches <=> Switching # {})
    /\ [][ \A k \in Callers :
              (Switching # {} /\ switching[k].pc = "idle" /\ switching'[k] # switching[k])
                  => /\ switching'[k].pc = "idle" /\ switching'[k].last = "busy"
                     /\ activeCharacterId' = activeCharacterId
                     /\ isProcessingSwitches' = isProcessingSwitches ]_vars
\* one caller was refused while the other's call was in flight, and that call
\* has since failed with 'not found'
C19_Witness ==
    /\ switching["a"].last = "busy"
    /\ switching["b"].last = "notFound"
    /\ Switching = {}
    /\ ~isProcessingSwitches
\* one caller is refused while the other's call is in flight
C19_WitnessInFlight ==
    /\ switching["a"].last = "busy" /\ switching["a"].pc = "idle"
    /\ switching["b"].pc = "load"
    /\ isProcessingSwitches

\* C21: after a successful reverseSwap the record has status reversed, is no
\* longer in the active set, and a history is one entry longer than before
\* the call (the History Stack's log, or the engine's own swap history).
C21_ReverseAppendsHistoryEntry ==
    [][ (stats'.reversedSwaps = stats.reversedSwaps + 1)
            => /\ swapRecords'[eLast'.swapId].status = "reversed"
               /\ eLast'.swapId \notin activeSwaps'
               /\ \/ Len(history') = Len(history) + 1
                  \/ Len(swapHistory') = Len(swapHistory) + 1 ]_vars

\* the part of C21 about the record and the active set alone
C21_MarksReversed ==
    [][ (stats'.reversedSwaps = stats.reversedSwaps + 1)
            => /\ swapRecords'[eLast'.swapId].status = "reversed"
               /\ eLast'.swapId \notin activeSwaps' ]_vars

(***************************************************************************)
(* Failures underneath the engine and the store                            *)
(***************************************************************************)
\* C22: a reverseSwap of an active swap during which a state could not be
\* loaded or a write was not saved leaves the record active and in the
\* active set, leaves the count of reversed swaps alone and returns
\* success=false.
C22_FailedReverseStaysActive ==
    [][ (/\ eLast'.op = "reverseSwap" /\ sLast'.op = "reverseSwap"
         /\ eLast'.swapId \in activeSwaps
         /\ ~sLast'.written)
            => /\ eLast'.outcome = "failure"
               /\ swapRecords'[eLast'.swapId].status = "active"
               /\ eLast'.swapId \in activeSwaps'
               /\ stats'.reversedSwaps = stats.reversedSwaps ]_vars
\* the part of C22 the code keeps: a reverseSwap that returns success=false
\* has changed no record, not the active set and not the counter
C22_ReportedFailureStaysActive ==
    [][ (eLast'.op = "reverseSwap" /\ eLast'.outcome = "failure")
            => /\ swapRecords' = swapRecords
               /\ activeSwaps' = activeSwaps
               /\ stats'.reversedSwaps = stats.reversedSwaps ]_vars

\* C24: a saveBodyMap whose underlying write failed does not return a
\* success value.
C24_FailedSaveSurfaced ==
    (sLast.op = "saveBodyMap" /\ ~sLast.written) => sLast.returned # TRUE
\* the same without the write queue (performance.autoSave off), where the
\* value of performWrite reaches the caller
C24_DirectSaveSurfaced ==
    (~autoSave /\ sLast.op = "saveBodyMap" /\ ~sLast.written) => sLast.returned # TRUE

\* C23: a performSwap or reverseSwap that fails on validation, on an unknown
\* character or swap id, or on a swap that is not active hands its caller a
\* failure value; it never returns the empty (null) result.
C23_FailuresNotSwallowed ==
    eLast.op \in {"performSwap", "reverseSwap"} => eLast.outcome # "null"

(***************************************************************************)
(* Flushes of evicted entries                                              *)
(***************************************************************************)
\* the ids of the flushes a step has started
StartedFlushes ==
    { flushing'[k].id : k \in (Len(flushing) + 1)..Len(flushing') }

\* C25: every entry an eviction pass has selected, and started a flush for,
\* is out of the cache when the pass returns, and a flush that settles later,
\* saved or failed, changes nothing of the cache.
C25_FlushNeverAltersEviction ==
    [][ /\ (Len(flushing') > Len(flushing))
            => StartedFlushes \cap DOMAIN characterCache' = {}
        /\ (Len(flushing') < Len(flushing))
            => /\ characterCache' = characterCache
               /\ lastAccessTimes' = lastAccessTimes
               /\ memoryUsageBytes' = memoryUsageBytes
               /\ activeCharacterId' = activeCharacterId ]_vars
\* the flush of an evicted entry has failed, and the entry is out of the cache
C25_Witness ==
    /\ cLast = "flushFailed"
    /\ "c2" \notin DOMAIN characterCache
    /\ "c1" \in DOMAIN characterCache
    /\ flushing = <<>>

\* C26: shutdown clears the cached states only when no flush started by an
\* earlier eviction or cleanup is still in flight.
C26_ShutdownAfterFlushes ==
    [][ (characterCache # <<>> /\ cLast' = "shutdown") => flushing = <<>> ]_vars

(***************************************************************************)
(* The life cycle of the engine                                            *)
(***************************************************************************)
\* the part of C27 about a disabled engine: a performSwap or reverseSwap on
\* an engine that is not ready throws and touches nothing
C27_DisabledRejects ==
    [][ (~isReady /\ eLast'.op \in {"performSwap", "reverseSwap"} /\ eLast' # eLast)
            => /\ eLast'.outcome = "throw"
               /\ characters' = characters
               /\ swapRecords' = swapRecords /\ activeSwaps' = activeSwaps
               /\ stats' = stats ]_vars
\* the part of C27 about failures that are not critical: they never disable
C27_NotCriticalKeepsEnabled ==
    [][ (eLast'.op = "handleError" /\ eLast'.outcome = "notCritical") => enabled' = enabled ]_vars

\* C27: once a critical failure was handled, performSwap and reverseSwap are
\* rejected without touching a character state, and an initialize that
\* succeeds makes the engine ready again; a failure that is not critical does
\* not disable the engine.
C27_ReinitializeMakesReady ==
    /\ C27_DisabledRejects
    /\ C27_NotCriticalKeepsEnabled
    /\ []((eLast.op = "initialize" /\ eLast.outcome = "success") => isReady)

FullySuccessful(swapped) == \A k \in 1..Len(swapped.results) : swapped.results[k].success

\* C29: from the same stored states, two lists of the same zones in different
\* order, each exchanged with every zone succeeding, leave the same states.
C29_ZoneOrderIrrelevant ==
    \A a \in Chars, b \in Chars, z1 \in ZoneLists, z2 \in ZoneLists :
        LET one == SwapZones(characters, a, b, z1)
            two == SwapZones(characters, a, b, z2)
        IN (/\ a # b
            /\ Len(z1) = Len(z2) /\ Range(z1) = Range(z2)
            /\ FullySuccessful(one) /\ FullySuccessful(two))
              => one.store = two.store
\* a performSwap has exchanged two zones that differ between the characters,
\* and the other order of the same zones leads from the states before it to
\* the states it left
C29_Witness ==
    /\ eLast.op = "performSwap" /\ eLast.outcome = "success"
    /\ eLast.zones = <<"chest", "waist">>
    /\ preSwap.taken
    /\ \A z \in Zones : preSwap.store[eLast.sourceCharId][z] # preSwap.store[eLast.targetCharId][z]
    /\ characters = SwapZones(preSwap.store, eLast.sourceCharId, eLast.targetCharId, <<"waist", "chest">>).store
    /\ characters # preSwap.store

\* the character is in neither the cache nor the store
Absent(id) == id \notin DOMAIN characterCache /\ ~hasBodyMap(characters, id)

C38_WritesSerialized ==
    /\ Len(performing) <= 1
    /\ \A i \in 1..Len(qLast.performed), j \in 1..Len(qLast.performed) :
          i < j => qLast.performed[i] < qLast.performed[j]
\* three writes were performed, two of them queued while the first was in
\* progress
C38_Witness ==
    /\ qLast.performed = <<1, 2, 3>>
    /\ qLast.behind = {2, 3}
    /\ qLast.settled = {1, 2}
    /\ Len(performing) = 1

\* C39: a write that was queued is waiting in the queue, or performWrite was
\* called for it; none is dropped, whether or not the manager is shut down.
C39_NoQueuedWriteDiscarded ==
    \A t \in 1..qLast.queued :
        \/ \E k \in 1..Len(writeQueue) : writeQueue[k].ticket = t
        \/ \E k \in 1..Len(qLast.performed) : qLast.performed[k] = t

(***************************************************************************)
(* Overlapping undo calls                                                  *)
(***************************************************************************)
\* C33: an undo that decrements the index undoes the entry the index points
\* at, so no entry is undone twice by two calls that overlap, and the index
\* stays at -1 or above.
C33_OverlappingUndo ==
    [][ (hLast'.op = "undo" /\ hLast'.success /\ currentIndex' # currentIndex) =>
            /\ currentIndex' >= -1
            /\ currentIndex + 1 \in 1..Len(history)
            /\ hLast'.entry = history[currentIndex + 1] ]_vars

(***************************************************************************)
(* Overlapping reverseSwap calls                                           *)
(***************************************************************************)
\* C34: the reversed-swaps counter never exceeds the number of swap records
\* that are reversed: of two overlapping reverseSwap calls for one swap at
\* most one reports success and is counted.
C34_ReversedAtMostOnce ==
    stats.reversedSwaps <= Cardinality({ id \in DOMAIN swapRecords : swapRecords[id].status = "reversed" })

(***************************************************************************)
(* The swap counters                                                       *)
(***************************************************************************)
\* C35: the swaps counted as successful and those counted as failed are
\* together no more than the swaps counted in total: a performSwap whose
\* executeSwap failed is counted as failed and not as successful as well.
C35_CountersConsistent ==
    stats.successfulSwaps + stats.failedSwaps <= stats.totalSwaps

(***************************************************************************)
(* The memory the cache tracks                                             *)
(***************************************************************************)
\* C36: memoryUsageBytes is the sum of the sizes of the cached entries, and is
\* never negative.
C36_MemoryIsSumOfEntries ==
    /\ memoryUsageBytes = AggregateSize(characterCache, DOMAIN characterCache)
    /\ memoryUsageBytes >= 0

(***************************************************************************)
(* The active character                                                    *)
(***************************************************************************)
\* C37: the character a switchCharacter made active has an entry in the
\* cache: the active character is cached in every state.
C37_ActiveIsCached ==
    activeCharacterId # NoChar => activeCharacterId \in DOMAIN characterCache

(***************************************************************************)
(* The persistence of the history log                                      *)
(***************************************************************************)
\* C40: a History Stack initialized over a storage that holds a saved,
\* non-empty history log has the saved entries, in their order, and its index
\* at the last of them.
C40_HistoryRoundTrip ==
    [][ (hLast'.op = "loadHistoryFromStorage" /\ storedHistory.items # <<>>) =>
            /\ history' = storedHistory.items
            /\ currentIndex' = Len(storedHistory.items) - 1 ]_vars

(***************************************************************************)
(* Conservation of zone values                                             *)
(***************************************************************************)
\* how many characters of a store hold the value v for the zone z
Holders(store, z, v) == Cardinality({ c \in Chars : ZoneOf(store, c, z) = v })

\* C32: while no swap is in progress, every zone value is held by as many
\* characters as at the start, whatever swaps were made and in whatever order
\* they were reversed.
C32_ZoneValuesConserved ==
    flights = NoFlights =>
        \A z \in Zones, v \in ZoneValues : Holders(characters, z, v) = Holders(ThreeStored, z, v)

(***************************************************************************)
(* Swaps on disjoint pairs of characters                                   *)
(***************************************************************************)
\* C31: once two performSwap calls on disjoint pairs of characters have both
\* returned and their writes are performed, the stored states are those of
\* the two swaps made one after the other.
C31_DisjointSwapsBothTakeEffect ==
    (/\ flights = NoFlights /\ writeQueue = <<>> /\ performing = <<>>
     /\ DOMAIN swapRecords = {1, 2}
     /\ {swapRecords[1].sourceCharId, swapRecords[1].targetCharId}
           \cap {swapRecords[2].sourceCharId, swapRecords[2].targetCharId} = {})
    => LET first == SwapZones(FourStored, swapRecords[1].sourceCharId,
                              swapRecords[1].targetCharId, swapRecords[1].zones).store
       IN characters = SwapZones(first, swapRecords[2].sourceCharId,
                                 swapRecords[2].targetCharId, swapRecords[2].zones).store

====
